---- MODULE Spec2Model ----
(***************************************************************************)
(* Oracle governance (stellar-swipe/contracts/oracle/src/governance.rs):   *)
(* the stake ledger, the proposal store, the quorum/approval evaluator,    *)
(* the proposal lifecycle controller and the execution dispatcher.         *)
(*                                                                         *)
(* Every public function of OracleGovernance is modelled as an operator    *)
(* from the storage before the call (a record `s`) and the arguments to    *)
(* [st |-> storage after the call, ret |-> returned value]; an action      *)
(* applies one such call.  Calls are atomic and serialized by the host.    *)
(* require_auth is the host's primitive: the named address is the caller.  *)
(*                                                                         *)
(* Amounts are counted in units of 5 * 10^9 stroops (500 XLM), so that     *)
(* PROPOSAL_DEPOSIT = 1_000 * 10_000_000 stroops is 2 units and a balance  *)
(* can lie strictly between zero and the deposit; all amounts of the model *)
(* are far below 2^127 and i128 arithmetic is exact on them.               *)
(***************************************************************************)
EXTENDS Integers, Sequences, FiniteSets, TLC

\* ------------------------------------------------------------------------
\* Governance constants (governance.rs:19-38)
\* ------------------------------------------------------------------------
VOTING_PERIOD_SECONDS == 7 * 24 * 60 * 60
EMERGENCY_VOTING_PERIOD_SECONDS == 24 * 60 * 60
QUORUM_BPS == 1000
APPROVAL_THRESHOLD_BPS == 6600
EMERGENCY_THRESHOLD_BPS == 8000
\* 1_000 * 10_000_000 stroops, in units of 5 * 10^9 stroops
PROPOSAL_DEPOSIT == 2
MIN_ORACLES == 2

\* ------------------------------------------------------------------------
\* Bounds of the model
\* ------------------------------------------------------------------------
\* proposals created in one behaviour
MaxProposals == 1
\* cap on TotalStaked (deposits beyond it are not explored)
MaxTotalStaked == 4

\* cap on TotalStaked in the behaviours of deposit_stake / withdraw_stake alone
MaxLedgerTotal == 26
\* proposal creation in depth: proposals created in one behaviour, and cap on
\* TotalStaked
MaxCreated == 2
MaxCreateTotal == 5
\* uneven stakes: cap on TotalStaked
MaxUnevenTotal == 13
\* oracle membership: oracles known to the contract, and longest list
MaxOracles == 3
\* the evaluator alone: tallies 0 .. MaxTally and totals 0 .. MaxEvalTotal
MaxTally == 3
MaxEvalTotal == 60

Addresses == {"a", "b"}
\* the addresses are interchangeable: one of them creates the proposals and
\* the other one is the candidate admin; both stake, vote and call cancel
Proposers == {"a"}
AdminCandidates == {"b"}
\* amounts offered to deposit_stake / withdraw_stake: one invalid (<= 0), the
\* proposal deposit, and twice the proposal deposit
Amounts == {0, PROPOSAL_DEPOSIT, 2 * PROPOSAL_DEPOSIT}
\* the clock advances by whole voting periods
TimeSteps == {VOTING_PERIOD_SECONDS}
Descriptions == {"d"}

\* ------------------------------------------------------------------------
\* Values
\* ------------------------------------------------------------------------
NoAdmin == "unset"
Unset == <<>>

Ok(v) == [ok |-> TRUE, val |-> v]
Err(e) == [ok |-> FALSE, err |-> e]
Unit == "unit"

Zeros(n) == [i \in 1 .. n |-> 0]
\* little-endian bytes of a small non-negative number (one significant byte)
U64Le(k) == <<k>> \o Zeros(7)
I128Le(v) == <<v>> \o Zeros(15)
\* UpdateParameter payload layout: bytes 0..8 key, bytes 8..24 value
ParamPayload(k, v) == U64Le(k) \o I128Le(v)

\* (proposal_type, execution_payload) pairs offered to create_proposal
CreateInputs ==
    { <<"AddOracle", <<>>>>,
      <<"UpdateParameter", ParamPayload(1, 9)>>,
      <<"EmergencyPause", <<>>>> }

\* ------------------------------------------------------------------------
\* State: the contract's storage, the ledger clock, and history counters
\* ------------------------------------------------------------------------
VARIABLES
    stake,             \* GovernanceKey::Stake(addr), absent = 0
    total_staked,      \* GovernanceKey::TotalStaked, absent = 0
    proposal_counter,  \* GovernanceKey::ProposalCounter, absent = 0
    proposals,         \* GovernanceKey::Proposal(id) -> OracleProposal
    voted,             \* the (id, voter) with GovernanceKey::HasVoted set
    gov_admin,         \* GovernanceKey::GovAdmin or NoAdmin
    oracles,           \* StorageKey::Oracles, absent = empty
    params,            \* instance keys p_min_or, p_ttl, p_dev (LE bytes)
    paused,            \* instance key "paused", absent = FALSE
    now,               \* env.ledger().timestamp()
    credited,          \* history: times the deposit of id was added back to a stake
    burned,            \* history: deposit-burned events of id
    tallied,           \* history: times (id, voter) added weight to a tally
    created,           \* history: the id returned by each successful
                       \* create_proposal and the timestamp of the call, in order
    eval               \* the evaluator alone: its arguments and returned values

vars == <<stake, total_staked, proposal_counter, proposals, voted, gov_admin,
          oracles, params, paused, now, credited, burned, tallied, created,
          eval>>

\* the storage as one value, as a call sees it
St ==
    [stake |-> stake, total_staked |-> total_staked,
     proposal_counter |-> proposal_counter, proposals |-> proposals,
     voted |-> voted, gov_admin |-> gov_admin, oracles |-> oracles,
     params |-> params, paused |-> paused, now |-> now,
     credited |-> credited, burned |-> burned, tallied |-> tallied,
     created |-> created]

InitSt ==
    [stake |-> [a \in Addresses |-> 0], total_staked |-> 0,
     proposal_counter |-> 0, proposals |-> <<>>,
     voted |-> {}, gov_admin |-> NoAdmin, oracles |-> <<>>,
     params |-> [p_min_or |-> Unset, p_ttl |-> Unset, p_dev |-> Unset],
     paused |-> FALSE, now |-> 0,
     credited |-> <<>>, burned |-> <<>>, tallied |-> <<>>,
     created |-> <<>>]

\* the arguments of is_quorum_reached / is_approved (of the proposal, only
\* proposal_type, votes_for and votes_against are read) and what they returned:
\* {} before the call, {returned value} after it
EvalOf(proposal_type, votes_for, votes_against, total) ==
    [proposal |-> [proposal_type |-> proposal_type,
                   votes_for |-> votes_for, votes_against |-> votes_against],
     total |-> total, quorum |-> {}, approved |-> {}]

NoEval == EvalOf("AddOracle", 0, 0, 0)

\* ------------------------------------------------------------------------
\* Storage helpers (governance.rs:189-254)
\* ------------------------------------------------------------------------
get_proposal_counter(s) == s.proposal_counter

\* mutation: the counter is returned as it was before the increment
increment_proposal_counter_old_value(s) ==
    LET next == get_proposal_counter(s) + 1
    IN  [st |-> [s EXCEPT !.proposal_counter = next], val |-> get_proposal_counter(s)]

increment_proposal_counter(s) ==
    LET next == get_proposal_counter(s) + 1
    IN  [st |-> [s EXCEPT !.proposal_counter = next], val |-> next]

\* a map entry is written: created when absent, overwritten whole when present
Put(f, k, v) == [i \in DOMAIN f \cup {k} |-> IF i = k THEN v ELSE f[i]]
Count(f, k) == IF k \in DOMAIN f THEN f[k] ELSE 0
Bump(f, k) == Put(f, k, Count(f, k) + 1)

save_proposal(s, proposal) ==
    [s EXCEPT !.proposals = Put(s.proposals, proposal.id, proposal)]

load_proposal(s, id) ==
    IF id \in DOMAIN s.proposals THEN Ok(s.proposals[id]) ELSE Err("OracleNotFound")

\* mutation: the marker replaces the markers written before it
mark_voted_forgets(s, proposal_id, voter) ==
    [s EXCEPT !.voted = {<<proposal_id, voter>>}]

mark_voted(s, proposal_id, voter) ==
    [s EXCEPT !.voted = s.voted \cup {<<proposal_id, voter>>}]

\* mutation: the marker is looked up under a key that is never written
has_voted_wrong_key(s, proposal_id, voter) == <<proposal_id, voter, "ballot">> \in s.voted

has_voted(s, proposal_id, voter) == <<proposal_id, voter>> \in s.voted

get_total_staked(s) == s.total_staked

set_total_staked(s, amount) == [s EXCEPT !.total_staked = amount]

get_stake(s, staker) == s.stake[staker]

set_stake(s, staker, amount) == [s EXCEPT !.stake[staker] = amount]

Max(x, y) == IF x >= y THEN x ELSE y

\* ------------------------------------------------------------------------
\* Quorum & approval helpers (governance.rs:260-280)
\* ------------------------------------------------------------------------
\* mutation: quorum needs strictly more than QUORUM_BPS of the total
is_quorum_reached_strict(proposal, total) ==
    IF total = 0
    THEN FALSE
    ELSE LET total_votes == proposal.votes_for + proposal.votes_against
         IN  total_votes * 10000 > QUORUM_BPS * total

\* mutation: the cast votes are not scaled to basis points
is_quorum_reached_unscaled(proposal, total) ==
    IF total = 0
    THEN FALSE
    ELSE LET total_votes == proposal.votes_for + proposal.votes_against
         IN  total_votes >= QUORUM_BPS * total

is_quorum_reached(proposal, total) ==
    IF total = 0
    THEN FALSE
    ELSE LET total_votes == proposal.votes_for + proposal.votes_against
         IN  total_votes * 10000 >= QUORUM_BPS * total

\* mutation: every kind of proposal uses the ordinary threshold
is_approved_one_threshold(proposal) ==
    LET total_votes == proposal.votes_for + proposal.votes_against
        threshold == APPROVAL_THRESHOLD_BPS
    IN  IF total_votes = 0
        THEN FALSE
        ELSE proposal.votes_for * 10000 >= threshold * total_votes

is_approved(proposal) ==
    LET total_votes == proposal.votes_for + proposal.votes_against
        threshold == IF proposal.proposal_type = "EmergencyPause"
                     THEN EMERGENCY_THRESHOLD_BPS
                     ELSE APPROVAL_THRESHOLD_BPS
    IN  IF total_votes = 0
        THEN FALSE
        ELSE proposal.votes_for * 10000 >= threshold * total_votes

\* ------------------------------------------------------------------------
\* Execution helpers (governance.rs:286-319)
\* ------------------------------------------------------------------------
\* both paths of the function return Err: the decoding is a placeholder
decode_oracle_address(payload) ==
    IF Len(payload) = 0 THEN Err("InvalidPrice") ELSE Err("InvalidPrice")

\* the key and the value stay little-endian byte strings: key_bytes is
\* payload[0..8], val_bytes is payload[8..24]
decode_parameter(payload) ==
    IF Len(payload) < 24
    THEN Err("InvalidPrice")
    ELSE Ok([key |-> SubSeq(payload, 1, 8), val |-> SubSeq(payload, 9, 24)])

\* ------------------------------------------------------------------------
\* Staking (governance.rs:337-367)
\* ------------------------------------------------------------------------
\* mutation: the running total is overwritten with the staker's new balance
deposit_stake_total_from_balance(s, staker, amount) ==
    IF amount <= 0
    THEN [st |-> s, ret |-> Err("InvalidPrice")]
    ELSE LET current == get_stake(s, staker)
             new_stake == current + amount
             s1 == set_stake(s, staker, new_stake)
             s2 == set_total_staked(s1, new_stake)
         IN  [st |-> s2, ret |-> Ok(Unit)]

deposit_stake(s, staker, amount) ==
    IF amount <= 0
    THEN [st |-> s, ret |-> Err("InvalidPrice")]
    ELSE LET current == get_stake(s, staker)
             new_stake == current + amount
             s1 == set_stake(s, staker, new_stake)
             total == get_total_staked(s1) + amount
             s2 == set_total_staked(s1, total)
         IN  [st |-> s2, ret |-> Ok(Unit)]

\* mutation: the amount is not compared with the balance
withdraw_stake_unchecked(s, staker, amount) ==
    LET current == get_stake(s, staker)
    IN  IF amount <= 0
        THEN [st |-> s, ret |-> Err("InvalidPrice")]
        ELSE LET s1 == set_stake(s, staker, current - amount)
                 total == Max(get_total_staked(s1) - amount, 0)
                 s2 == set_total_staked(s1, total)
             IN  [st |-> s2, ret |-> Ok(Unit)]

\* mutation: the running total is not decreased
withdraw_stake_keeps_total(s, staker, amount) ==
    LET current == get_stake(s, staker)
    IN  IF amount <= 0 \/ amount > current
        THEN [st |-> s, ret |-> Err("InvalidPrice")]
        ELSE LET s1 == set_stake(s, staker, current - amount)
                 total == get_total_staked(s1)
                 s2 == set_total_staked(s1, total)
             IN  [st |-> s2, ret |-> Ok(Unit)]

\* mutation: the running total is decreased by twice the amount
withdraw_stake_total_twice(s, staker, amount) ==
    LET current == get_stake(s, staker)
    IN  IF amount <= 0 \/ amount > current
        THEN [st |-> s, ret |-> Err("InvalidPrice")]
        ELSE LET s1 == set_stake(s, staker, current - amount)
                 total == Max(get_total_staked(s1) - 2 * amount, 0)
                 s2 == set_total_staked(s1, total)
             IN  [st |-> s2, ret |-> Ok(Unit)]

withdraw_stake(s, staker, amount) ==
    LET current == get_stake(s, staker)
    IN  IF amount <= 0 \/ amount > current
        THEN [st |-> s, ret |-> Err("InvalidPrice")]
        ELSE LET s1 == set_stake(s, staker, current - amount)
                 total == Max(get_total_staked(s1) - amount, 0)
                 s2 == set_total_staked(s1, total)
             IN  [st |-> s2, ret |-> Ok(Unit)]

\* ------------------------------------------------------------------------
\* Concrete execution handlers (governance.rs:626-740)
\* ------------------------------------------------------------------------
Contains(seq, x) == \E i \in 1 .. Len(seq) : seq[i] = x

RECURSIVE Without(_, _)
\* the loop of exec_remove_oracle: every element different from x, in order
Without(seq, x) ==
    IF seq = <<>>
    THEN <<>>
    ELSE IF Head(seq) # x
         THEN <<Head(seq)>> \o Without(Tail(seq), x)
         ELSE Without(Tail(seq), x)

exec_add_oracle(s, proposal) ==
    LET d == decode_oracle_address(proposal.execution_payload)
    IN  IF ~d.ok
        THEN [st |-> s, res |-> Err(d.err)]
        ELSE IF Contains(s.oracles, d.val)
             THEN [st |-> s, res |-> Err("OracleAlreadyExists")]
             ELSE [st |-> [s EXCEPT !.oracles = Append(s.oracles, d.val)],
                   res |-> Ok(Unit)]

\* mutation: the first byte of the payload names the oracle, and the minimum
\* number of oracles is not enforced
exec_remove_oracle_unguarded(s, proposal) ==
    IF Len(proposal.execution_payload) = 0
    THEN [st |-> s, res |-> Err("InvalidPrice")]
    ELSE [st |-> [s EXCEPT !.oracles = Without(s.oracles, Head(proposal.execution_payload))],
          res |-> Ok(Unit)]

exec_remove_oracle(s, proposal) ==
    LET d == decode_oracle_address(proposal.execution_payload)
    IN  IF ~d.ok
        THEN [st |-> s, res |-> Err(d.err)]
        ELSE IF Len(s.oracles) <= MIN_ORACLES
             THEN [st |-> s, res |-> Err("InsufficientOracles")]
             ELSE [st |-> [s EXCEPT !.oracles = Without(s.oracles, d.val)],
                   res |-> Ok(Unit)]

\* `new_value as u32` and `as u64` keep the low 4 and 8 little-endian bytes
exec_update_parameter(s, proposal) ==
    LET d == decode_parameter(proposal.execution_payload)
    IN  IF ~d.ok
        THEN [st |-> s, res |-> Err(d.err)]
        ELSE LET param_key == d.val.key
                 new_value == d.val.val
             IN  CASE param_key = U64Le(0) ->
                        [st |-> [s EXCEPT !.params.p_min_or = SubSeq(new_value, 1, 4)],
                         res |-> Ok(Unit)]
                   [] param_key = U64Le(1) ->
                        [st |-> [s EXCEPT !.params.p_ttl = SubSeq(new_value, 1, 8)],
                         res |-> Ok(Unit)]
                   [] param_key = U64Le(2) ->
                        [st |-> [s EXCEPT !.params.p_dev = new_value],
                         res |-> Ok(Unit)]
                   [] OTHER -> [st |-> s, res |-> Err("InvalidPrice")]

\* mutation: the handler succeeds without recording the flag
exec_emergency_pause_no_flag(s, proposal) ==
    [st |-> s, res |-> Ok(Unit)]

exec_emergency_pause(s, proposal) ==
    [st |-> [s EXCEPT !.paused = TRUE], res |-> Ok(Unit)]

\* ------------------------------------------------------------------------
\* Internal execution (governance.rs:586-620)
\* ------------------------------------------------------------------------
\* mutation: a successful execution does not return the deposit
execute_proposal_keeps_deposit(s, proposal) ==
    LET r == CASE proposal.proposal_type = "AddOracle" -> exec_add_oracle(s, proposal)
               [] proposal.proposal_type = "RemoveOracle" -> exec_remove_oracle(s, proposal)
               [] proposal.proposal_type = "UpdateParameter" -> exec_update_parameter(s, proposal)
               [] proposal.proposal_type = "EmergencyPause" -> exec_emergency_pause(s, proposal)
        p1 == [proposal EXCEPT !.status = IF r.res.ok THEN "Executed" ELSE "ExecutionFailed"]
    IN  [st |-> save_proposal(r.st, p1), proposal |-> p1]

\* mutation: the deposit is returned whether the handler succeeds or fails
execute_proposal_refund_on_failure(s, proposal) ==
    LET r == CASE proposal.proposal_type = "AddOracle" -> exec_add_oracle(s, proposal)
               [] proposal.proposal_type = "RemoveOracle" -> exec_remove_oracle(s, proposal)
               [] proposal.proposal_type = "UpdateParameter" -> exec_update_parameter(s, proposal)
               [] proposal.proposal_type = "EmergencyPause" -> exec_emergency_pause(s, proposal)
        p1 == [proposal EXCEPT !.status = IF r.res.ok THEN "Executed" ELSE "ExecutionFailed"]
        cur == get_stake(r.st, p1.proposer)
        s1 == set_stake(r.st, p1.proposer, cur + p1.deposit)
        s2 == [s1 EXCEPT !.credited = Bump(s1.credited, p1.id)]
    IN  [st |-> save_proposal(s2, p1), proposal |-> p1]

\* mutation: a returned deposit is also cleared in the proposal record
execute_proposal_zero_deposit(s, proposal) ==
    LET r == CASE proposal.proposal_type = "AddOracle" -> exec_add_oracle(s, proposal)
               [] proposal.proposal_type = "RemoveOracle" -> exec_remove_oracle(s, proposal)
               [] proposal.proposal_type = "UpdateParameter" -> exec_update_parameter(s, proposal)
               [] proposal.proposal_type = "EmergencyPause" -> exec_emergency_pause(s, proposal)
    IN  IF r.res.ok
        THEN LET p1 == [proposal EXCEPT !.status = "Executed", !.deposit = 0]
                 cur == get_stake(r.st, p1.proposer)
                 s1 == set_stake(r.st, p1.proposer, cur + proposal.deposit)
                 s2 == [s1 EXCEPT !.credited = Bump(s1.credited, p1.id)]
             IN  [st |-> save_proposal(s2, p1), proposal |-> p1]
        ELSE LET p1 == [proposal EXCEPT !.status = "ExecutionFailed"]
             IN  [st |-> save_proposal(r.st, p1), proposal |-> p1]

\* returns the storage after the call and the caller's local `proposal`
execute_proposal(s, proposal) ==
    LET r == CASE proposal.proposal_type = "AddOracle" -> exec_add_oracle(s, proposal)
               [] proposal.proposal_type = "RemoveOracle" -> exec_remove_oracle(s, proposal)
               [] proposal.proposal_type = "UpdateParameter" -> exec_update_parameter(s, proposal)
               [] proposal.proposal_type = "EmergencyPause" -> exec_emergency_pause(s, proposal)
    IN  IF r.res.ok
        THEN LET p1 == [proposal EXCEPT !.status = "Executed"]
                 cur == get_stake(r.st, p1.proposer)
                 s1 == set_stake(r.st, p1.proposer, cur + p1.deposit)
                 s2 == [s1 EXCEPT !.credited = Bump(s1.credited, p1.id)]
             IN  [st |-> save_proposal(s2, p1), proposal |-> p1]
        ELSE LET p1 == [proposal EXCEPT !.status = "ExecutionFailed"]
             IN  [st |-> save_proposal(r.st, p1), proposal |-> p1]

\* mutation: the expired proposal's deposit is returned instead of burned
finalise_expired_proposal_refund(s, proposal) ==
    LET p1 == [proposal EXCEPT !.status = "Failed"]
        cur == get_stake(s, p1.proposer)
        s1 == set_stake(s, p1.proposer, cur + p1.deposit)
        s2 == [s1 EXCEPT !.credited = Bump(s1.credited, p1.id)]
    IN  [st |-> save_proposal(s2, p1), proposal |-> p1]

\* mutation: expiry also clears the tallies of the proposal
finalise_expired_proposal_reset(s, proposal) ==
    LET p1 == [proposal EXCEPT !.status = "Failed", !.votes_for = 0, !.votes_against = 0]
        s1 == [s EXCEPT !.burned = Bump(s.burned, p1.id)]
    IN  [st |-> save_proposal(s1, p1), proposal |-> p1]

finalise_expired_proposal(s, proposal) ==
    LET p1 == [proposal EXCEPT !.status = "Failed"]
        s1 == [s EXCEPT !.burned = Bump(s.burned, p1.id)]
    IN  [st |-> save_proposal(s1, p1), proposal |-> p1]

\* ------------------------------------------------------------------------
\* Admin bootstrap (governance.rs:746-770)
\* ------------------------------------------------------------------------
\* mutation: a second call replaces the admin
initialize_overwrites(s, admin) ==
    [st |-> [s EXCEPT !.gov_admin = admin], ret |-> Ok(Unit)]

\* a second call panics: the call aborts and nothing is written
initialize(s, admin) ==
    IF s.gov_admin # NoAdmin
    THEN [st |-> s, ret |-> Err("panic")]
    ELSE [st |-> [s EXCEPT !.gov_admin = admin], ret |-> Ok(Unit)]

\* mutation: while no admin is configured every caller passes
require_gov_admin_open_when_unset(s, caller) ==
    IF s.gov_admin = NoAdmin
    THEN Ok(Unit)
    ELSE IF caller # s.gov_admin THEN Err("Unauthorized") ELSE Ok(Unit)

require_gov_admin(s, caller) ==
    IF s.gov_admin = NoAdmin
    THEN Err("Unauthorized")
    ELSE IF caller # s.gov_admin THEN Err("Unauthorized") ELSE Ok(Unit)

\* ------------------------------------------------------------------------
\* Proposal lifecycle (governance.rs:388-557)
\* ------------------------------------------------------------------------
\* mutation: the deposit is also taken out of the running total
create_proposal_total_reduced(s, proposer, proposal_type, description, execution_payload) ==
    LET cur == get_stake(s, proposer)
    IN  IF cur < PROPOSAL_DEPOSIT
        THEN [st |-> s, ret |-> Err("InsufficientOracles")]
        ELSE LET s0 == set_stake(s, proposer, cur - PROPOSAL_DEPOSIT)
                 s1 == set_total_staked(s0, get_total_staked(s0) - PROPOSAL_DEPOSIT)
                 voting_period == IF proposal_type = "EmergencyPause"
                                  THEN EMERGENCY_VOTING_PERIOD_SECONDS
                                  ELSE VOTING_PERIOD_SECONDS
                 c == increment_proposal_counter(s1)
                 id == c.val
                 s2 == [c.st EXCEPT !.created = Append(@, [id |-> id, at |-> s.now])]
                 proposal == [id |-> id,
                              proposer |-> proposer,
                              proposal_type |-> proposal_type,
                              description |-> description,
                              votes_for |-> 0,
                              votes_against |-> 0,
                              voting_ends |-> s.now + voting_period,
                              status |-> "Active",
                              execution_payload |-> execution_payload,
                              deposit |-> PROPOSAL_DEPOSIT]
             IN  [st |-> save_proposal(s2, proposal), ret |-> Ok(id)]

\* mutation: the deposit is entered as a first vote in favour
create_proposal_preloaded(s, proposer, proposal_type, description, execution_payload) ==
    LET cur == get_stake(s, proposer)
    IN  IF cur < PROPOSAL_DEPOSIT
        THEN [st |-> s, ret |-> Err("InsufficientOracles")]
        ELSE LET s1 == set_stake(s, proposer, cur - PROPOSAL_DEPOSIT)
                 voting_period == IF proposal_type = "EmergencyPause"
                                  THEN EMERGENCY_VOTING_PERIOD_SECONDS
                                  ELSE VOTING_PERIOD_SECONDS
                 c == increment_proposal_counter(s1)
                 id == c.val
                 s2 == [c.st EXCEPT !.created = Append(@, [id |-> id, at |-> s.now])]
                 proposal == [id |-> id,
                              proposer |-> proposer,
                              proposal_type |-> proposal_type,
                              description |-> description,
                              votes_for |-> PROPOSAL_DEPOSIT,
                              votes_against |-> 0,
                              voting_ends |-> s.now + voting_period,
                              status |-> "Active",
                              execution_payload |-> execution_payload,
                              deposit |-> PROPOSAL_DEPOSIT]
             IN  [st |-> save_proposal(s2, proposal), ret |-> Ok(id)]

\* mutation: a balance of exactly the deposit is refused
create_proposal_strict_deposit(s, proposer, proposal_type, description, execution_payload) ==
    LET cur == get_stake(s, proposer)
    IN  IF cur <= PROPOSAL_DEPOSIT
        THEN [st |-> s, ret |-> Err("InsufficientOracles")]
        ELSE LET s1 == set_stake(s, proposer, cur - PROPOSAL_DEPOSIT)
                 voting_period == IF proposal_type = "EmergencyPause"
                                  THEN EMERGENCY_VOTING_PERIOD_SECONDS
                                  ELSE VOTING_PERIOD_SECONDS
                 c == increment_proposal_counter(s1)
                 id == c.val
                 s2 == [c.st EXCEPT !.created = Append(@, [id |-> id, at |-> s.now])]
                 proposal == [id |-> id,
                              proposer |-> proposer,
                              proposal_type |-> proposal_type,
                              description |-> description,
                              votes_for |-> 0,
                              votes_against |-> 0,
                              voting_ends |-> s.now + voting_period,
                              status |-> "Active",
                              execution_payload |-> execution_payload,
                              deposit |-> PROPOSAL_DEPOSIT]
             IN  [st |-> save_proposal(s2, proposal), ret |-> Ok(id)]

\* mutation: every kind of proposal gets the ordinary voting period
create_proposal_one_period(s, proposer, proposal_type, description, execution_payload) ==
    LET cur == get_stake(s, proposer)
    IN  IF cur < PROPOSAL_DEPOSIT
        THEN [st |-> s, ret |-> Err("InsufficientOracles")]
        ELSE LET s1 == set_stake(s, proposer, cur - PROPOSAL_DEPOSIT)
                 voting_period == VOTING_PERIOD_SECONDS
                 c == increment_proposal_counter(s1)
                 id == c.val
                 s2 == [c.st EXCEPT !.created = Append(@, [id |-> id, at |-> s.now])]
                 proposal == [id |-> id,
                              proposer |-> proposer,
                              proposal_type |-> proposal_type,
                              description |-> description,
                              votes_for |-> 0,
                              votes_against |-> 0,
                              voting_ends |-> s.now + voting_period,
                              status |-> "Active",
                              execution_payload |-> execution_payload,
                              deposit |-> PROPOSAL_DEPOSIT]
             IN  [st |-> save_proposal(s2, proposal), ret |-> Ok(id)]

create_proposal(s, proposer, proposal_type, description, execution_payload) ==
    LET cur == get_stake(s, proposer)
    IN  IF cur < PROPOSAL_DEPOSIT
        THEN [st |-> s, ret |-> Err("InsufficientOracles")]
        ELSE LET s1 == set_stake(s, proposer, cur - PROPOSAL_DEPOSIT)
                 voting_period == IF proposal_type = "EmergencyPause"
                                  THEN EMERGENCY_VOTING_PERIOD_SECONDS
                                  ELSE VOTING_PERIOD_SECONDS
                 c == increment_proposal_counter(s1)
                 id == c.val
                 s2 == [c.st EXCEPT !.created = Append(@, [id |-> id, at |-> s.now])]
                 proposal == [id |-> id,
                              proposer |-> proposer,
                              proposal_type |-> proposal_type,
                              description |-> description,
                              votes_for |-> 0,
                              votes_against |-> 0,
                              voting_ends |-> s.now + voting_period,
                              status |-> "Active",
                              execution_payload |-> execution_payload,
                              deposit |-> PROPOSAL_DEPOSIT]
             IN  [st |-> save_proposal(s2, proposal), ret |-> Ok(id)]

\* mutation: a vote at exactly voting_ends is still accepted
voting_closed_strict(s, proposal) == s.now > proposal.voting_ends

\* mutation: the voting window never closes
voting_closed_never(s, proposal) == FALSE

\* the guard of the voting window: `now >= proposal.voting_ends`
voting_closed(s, proposal) == s.now >= proposal.voting_ends

\* mutation: a proposer votes with the locked deposit on top of the balance
vote_on_proposal_counts_locked(s, proposal_id, voter, vote) ==
    LET l == load_proposal(s, proposal_id)
    IN  IF ~l.ok
        THEN [st |-> s, ret |-> Err(l.err)]
        ELSE LET proposal == l.val
             IN  IF proposal.status # "Active"
                 THEN [st |-> s, ret |-> Err("InvalidPrice")]
                 ELSE IF voting_closed(s, proposal)
                 THEN [st |-> finalise_expired_proposal(s, proposal).st,
                       ret |-> Err("InvalidPrice")]
                 ELSE IF has_voted(s, proposal_id, voter)
                 THEN [st |-> s, ret |-> Err("OracleAlreadyExists")]
                 ELSE LET weight == get_stake(s, voter)
                                    + (IF voter = proposal.proposer THEN proposal.deposit ELSE 0)
                      IN  IF weight = 0
                          THEN [st |-> s, ret |-> Err("LowReputation")]
                          ELSE LET p1 == IF vote
                                         THEN [proposal EXCEPT !.votes_for = @ + weight]
                                         ELSE [proposal EXCEPT !.votes_against = @ + weight]
                                   s1 == [s EXCEPT !.tallied = Bump(s.tallied, <<proposal_id, voter>>)]
                                   s2 == mark_voted(s1, proposal_id, voter)
                                   s3 == save_proposal(s2, p1)
                                   total == get_total_staked(s3)
                               IN  IF is_quorum_reached(p1, total) /\ is_approved(p1)
                                   THEN [st |-> execute_proposal(s3, p1).st, ret |-> Ok(Unit)]
                                   ELSE [st |-> s3, ret |-> Ok(Unit)]

\* mutation: the status of the proposal is not checked before voting
vote_on_proposal_any_status(s, proposal_id, voter, vote) ==
    LET l == load_proposal(s, proposal_id)
    IN  IF ~l.ok
        THEN [st |-> s, ret |-> Err(l.err)]
        ELSE LET proposal == l.val
             IN  IF FALSE
                 THEN [st |-> s, ret |-> Err("InvalidPrice")]
                 ELSE IF voting_closed(s, proposal)
                 THEN [st |-> finalise_expired_proposal(s, proposal).st,
                       ret |-> Err("InvalidPrice")]
                 ELSE IF has_voted(s, proposal_id, voter)
                 THEN [st |-> s, ret |-> Err("OracleAlreadyExists")]
                 ELSE LET weight == get_stake(s, voter)
                      IN  IF weight = 0
                          THEN [st |-> s, ret |-> Err("LowReputation")]
                          ELSE LET p1 == IF vote
                                         THEN [proposal EXCEPT !.votes_for = @ + weight]
                                         ELSE [proposal EXCEPT !.votes_against = @ + weight]
                                   s1 == [s EXCEPT !.tallied = Bump(s.tallied, <<proposal_id, voter>>)]
                                   s2 == mark_voted(s1, proposal_id, voter)
                                   s3 == save_proposal(s2, p1)
                                   total == get_total_staked(s3)
                               IN  IF is_quorum_reached(p1, total) /\ is_approved(p1)
                                   THEN [st |-> execute_proposal(s3, p1).st, ret |-> Ok(Unit)]
                                   ELSE [st |-> s3, ret |-> Ok(Unit)]

\* mutation: the ballot marker is checked before the status and the window
vote_on_proposal_ballot_first(s, proposal_id, voter, vote) ==
    LET l == load_proposal(s, proposal_id)
    IN  IF ~l.ok
        THEN [st |-> s, ret |-> Err(l.err)]
        ELSE LET proposal == l.val
             IN  IF has_voted(s, proposal_id, voter)
                 THEN [st |-> s, ret |-> Err("OracleAlreadyExists")]
                 ELSE IF proposal.status # "Active"
                 THEN [st |-> s, ret |-> Err("InvalidPrice")]
                 ELSE IF voting_closed(s, proposal)
                 THEN [st |-> finalise_expired_proposal(s, proposal).st,
                       ret |-> Err("InvalidPrice")]
                 ELSE LET weight == get_stake(s, voter)
                      IN  IF weight = 0
                          THEN [st |-> s, ret |-> Err("LowReputation")]
                          ELSE LET p1 == IF vote
                                         THEN [proposal EXCEPT !.votes_for = @ + weight]
                                         ELSE [proposal EXCEPT !.votes_against = @ + weight]
                                   s1 == [s EXCEPT !.tallied = Bump(s.tallied, <<proposal_id, voter>>)]
                                   s2 == mark_voted(s1, proposal_id, voter)
                                   s3 == save_proposal(s2, p1)
                                   total == get_total_staked(s3)
                               IN  IF is_quorum_reached(p1, total) /\ is_approved(p1)
                                   THEN [st |-> execute_proposal(s3, p1).st, ret |-> Ok(Unit)]
                                   ELSE [st |-> s3, ret |-> Ok(Unit)]

vote_on_proposal(s, proposal_id, voter, vote) ==
    LET l == load_proposal(s, proposal_id)
    IN  IF ~l.ok
        THEN [st |-> s, ret |-> Err(l.err)]
        ELSE LET proposal == l.val
             IN  IF proposal.status # "Active"
                 THEN [st |-> s, ret |-> Err("InvalidPrice")]
                 ELSE IF voting_closed(s, proposal)
                 THEN [st |-> finalise_expired_proposal(s, proposal).st,
                       ret |-> Err("InvalidPrice")]
                 ELSE IF has_voted(s, proposal_id, voter)
                 THEN [st |-> s, ret |-> Err("OracleAlreadyExists")]
                 ELSE LET weight == get_stake(s, voter)
                      IN  IF weight = 0
                          THEN [st |-> s, ret |-> Err("LowReputation")]
                          ELSE LET p1 == IF vote
                                         THEN [proposal EXCEPT !.votes_for = @ + weight]
                                         ELSE [proposal EXCEPT !.votes_against = @ + weight]
                                   s1 == [s EXCEPT !.tallied = Bump(s.tallied, <<proposal_id, voter>>)]
                                   s2 == mark_voted(s1, proposal_id, voter)
                                   s3 == save_proposal(s2, p1)
                                   total == get_total_staked(s3)
                               IN  IF is_quorum_reached(p1, total) /\ is_approved(p1)
                                   THEN [st |-> execute_proposal(s3, p1).st, ret |-> Ok(Unit)]
                                   ELSE [st |-> s3, ret |-> Ok(Unit)]

\* mutation: at the end of the window only the approval is evaluated
finalise_proposal_approval_only(s, proposal_id) ==
    LET l == load_proposal(s, proposal_id)
    IN  IF ~l.ok
        THEN [st |-> s, ret |-> Err(l.err)]
        ELSE LET proposal == l.val
             IN  IF proposal.status # "Active"
                 THEN [st |-> s, ret |-> Ok(proposal.status)]
                 ELSE IF s.now < proposal.voting_ends
                 THEN [st |-> s, ret |-> Ok(proposal.status)]
                 ELSE LET r == IF is_approved(proposal)
                               THEN execute_proposal(s, proposal)
                               ELSE finalise_expired_proposal(s, proposal)
                      IN  [st |-> r.st, ret |-> Ok(r.proposal.status)]

\* mutation: an Active proposal is finalised before its voting window closes
finalise_proposal_early(s, proposal_id) ==
    LET l == load_proposal(s, proposal_id)
    IN  IF ~l.ok
        THEN [st |-> s, ret |-> Err(l.err)]
        ELSE LET proposal == l.val
             IN  IF proposal.status # "Active"
                 THEN [st |-> s, ret |-> Ok(proposal.status)]
                 ELSE LET total == get_total_staked(s)
                          r == IF is_quorum_reached(proposal, total) /\ is_approved(proposal)
                               THEN execute_proposal(s, proposal)
                               ELSE finalise_expired_proposal(s, proposal)
                      IN  [st |-> r.st, ret |-> Ok(r.proposal.status)]

\* mutation: once the window has closed, a proposal whose execution failed is
\* finalised like an Active one
finalise_proposal_expires_retryable(s, proposal_id) ==
    LET l == load_proposal(s, proposal_id)
    IN  IF ~l.ok
        THEN [st |-> s, ret |-> Err(l.err)]
        ELSE LET proposal == l.val
             IN  IF proposal.status \notin {"Active", "ExecutionFailed"}
                 THEN [st |-> s, ret |-> Ok(proposal.status)]
                 ELSE IF s.now < proposal.voting_ends
                 THEN [st |-> s, ret |-> Ok(proposal.status)]
                 ELSE LET total == get_total_staked(s)
                          r == IF /\ proposal.status = "Active"
                                  /\ is_quorum_reached(proposal, total)
                                  /\ is_approved(proposal)
                               THEN execute_proposal(s, proposal)
                               ELSE finalise_expired_proposal(s, proposal)
                      IN  [st |-> r.st, ret |-> Ok(r.proposal.status)]

finalise_proposal(s, proposal_id) ==
    LET l == load_proposal(s, proposal_id)
    IN  IF ~l.ok
        THEN [st |-> s, ret |-> Err(l.err)]
        ELSE LET proposal == l.val
             IN  IF proposal.status # "Active"
                 THEN [st |-> s, ret |-> Ok(proposal.status)]
                 ELSE IF s.now < proposal.voting_ends
                 THEN [st |-> s, ret |-> Ok(proposal.status)]
                 ELSE LET total == get_total_staked(s)
                          r == IF is_quorum_reached(proposal, total) /\ is_approved(proposal)
                               THEN execute_proposal(s, proposal)
                               ELSE finalise_expired_proposal(s, proposal)
                      IN  [st |-> r.st, ret |-> Ok(r.proposal.status)]

\* mutation: a retry whose execution fails again marks the proposal Failed
retry_execution_gives_up(s, proposal_id) ==
    LET l == load_proposal(s, proposal_id)
    IN  IF ~l.ok
        THEN [st |-> s, ret |-> Err(l.err)]
        ELSE IF l.val.status # "ExecutionFailed"
             THEN [st |-> s, ret |-> Err("InvalidPrice")]
             ELSE LET e == execute_proposal(s, l.val)
                  IN  IF e.proposal.status = "ExecutionFailed"
                      THEN [st |-> finalise_expired_proposal(e.st, e.proposal).st,
                            ret |-> Ok(Unit)]
                      ELSE [st |-> e.st, ret |-> Ok(Unit)]

\* mutation: the status of the proposal is not checked before the retry
retry_execution_any_status(s, proposal_id) ==
    LET l == load_proposal(s, proposal_id)
    IN  IF ~l.ok
        THEN [st |-> s, ret |-> Err(l.err)]
        ELSE [st |-> execute_proposal(s, l.val).st, ret |-> Ok(Unit)]

retry_execution(s, proposal_id) ==
    LET l == load_proposal(s, proposal_id)
    IN  IF ~l.ok
        THEN [st |-> s, ret |-> Err(l.err)]
        ELSE IF l.val.status # "ExecutionFailed"
             THEN [st |-> s, ret |-> Err("InvalidPrice")]
             ELSE [st |-> execute_proposal(s, l.val).st, ret |-> Ok(Unit)]

\* mutation: a proposal whose voting window has closed cannot be cancelled
cancel_proposal_open_window_only(s, admin, proposal_id) ==
    LET a == require_gov_admin(s, admin)
        l == load_proposal(s, proposal_id)
    IN  IF ~a.ok
        THEN [st |-> s, ret |-> Err(a.err)]
        ELSE IF ~l.ok
        THEN [st |-> s, ret |-> Err(l.err)]
        ELSE IF l.val.status # "Active" \/ s.now >= l.val.voting_ends
        THEN [st |-> s, ret |-> Err("InvalidPrice")]
        ELSE LET proposal == l.val
                 deposit == proposal.deposit
                 proposer_stake == get_stake(s, proposal.proposer)
                 s1 == set_stake(s, proposal.proposer, proposer_stake + deposit)
                 s2 == [s1 EXCEPT !.credited = Bump(s1.credited, proposal.id)]
                 p1 == [proposal EXCEPT !.status = "Cancelled"]
             IN  [st |-> save_proposal(s2, p1), ret |-> Ok(Unit)]

\* mutation: the status of the proposal is not checked before cancelling
cancel_proposal_any_status(s, admin, proposal_id) ==
    LET a == require_gov_admin(s, admin)
        l == load_proposal(s, proposal_id)
    IN  IF ~a.ok
        THEN [st |-> s, ret |-> Err(a.err)]
        ELSE IF ~l.ok
        THEN [st |-> s, ret |-> Err(l.err)]
        ELSE IF FALSE
        THEN [st |-> s, ret |-> Err("InvalidPrice")]
        ELSE LET proposal == l.val
                 deposit == proposal.deposit
                 proposer_stake == get_stake(s, proposal.proposer)
                 s1 == set_stake(s, proposal.proposer, proposer_stake + deposit)
                 s2 == [s1 EXCEPT !.credited = Bump(s1.credited, proposal.id)]
                 p1 == [proposal EXCEPT !.status = "Cancelled"]
             IN  [st |-> save_proposal(s2, p1), ret |-> Ok(Unit)]

cancel_proposal(s, admin, proposal_id) ==
    LET a == require_gov_admin(s, admin)
        l == load_proposal(s, proposal_id)
    IN  IF ~a.ok
        THEN [st |-> s, ret |-> Err(a.err)]
        ELSE IF ~l.ok
        THEN [st |-> s, ret |-> Err(l.err)]
        ELSE IF l.val.status # "Active"
        THEN [st |-> s, ret |-> Err("InvalidPrice")]
        ELSE LET proposal == l.val
                 deposit == proposal.deposit
                 proposer_stake == get_stake(s, proposal.proposer)
                 s1 == set_stake(s, proposal.proposer, proposer_stake + deposit)
                 s2 == [s1 EXCEPT !.credited = Bump(s1.credited, proposal.id)]
                 p1 == [proposal EXCEPT !.status = "Cancelled"]
             IN  [st |-> save_proposal(s2, p1), ret |-> Ok(Unit)]

\* ------------------------------------------------------------------------
\* Queries (governance.rs:564-576)
\* ------------------------------------------------------------------------
get_proposal(s, proposal_id) == load_proposal(s, proposal_id)

proposal_count(s) == get_proposal_counter(s)

\* ------------------------------------------------------------------------
\* The state machine: one action per public call, and the clock
\* ------------------------------------------------------------------------
ProposalIds == 1 .. MaxProposals

\* the storage after a call becomes the state
Apply(r) ==
    /\ stake' = r.st.stake
    /\ total_staked' = r.st.total_staked
    /\ proposal_counter' = r.st.proposal_counter
    /\ proposals' = r.st.proposals
    /\ voted' = r.st.voted
    /\ gov_admin' = r.st.gov_admin
    /\ oracles' = r.st.oracles
    /\ params' = r.st.params
    /\ paused' = r.st.paused
    /\ now' = r.st.now
    /\ credited' = r.st.credited
    /\ burned' = r.st.burned
    /\ tallied' = r.st.tallied
    /\ created' = r.st.created
    /\ eval' = eval

Init ==
    /\ stake = InitSt.stake
    /\ total_staked = InitSt.total_staked
    /\ proposal_counter = InitSt.proposal_counter
    /\ proposals = InitSt.proposals
    /\ voted = InitSt.voted
    /\ gov_admin = InitSt.gov_admin
    /\ oracles = InitSt.oracles
    /\ params = InitSt.params
    /\ paused = InitSt.paused
    /\ now = InitSt.now
    /\ credited = InitSt.credited
    /\ burned = InitSt.burned
    /\ tallied = InitSt.tallied
    /\ created = InitSt.created
    /\ eval = NoEval

Initialize == \E admin \in AdminCandidates : Apply(initialize(St, admin))

DepositStake ==
    \E staker \in Addresses, amount \in Amounts :
        /\ total_staked + amount <= MaxTotalStaked
        /\ Apply(deposit_stake(St, staker, amount))

WithdrawStake ==
    \E staker \in Addresses, amount \in Amounts :
        Apply(withdraw_stake(St, staker, amount))

CreateProposal ==
    \E proposer \in Proposers, in \in CreateInputs, description \in Descriptions :
        /\ proposal_counter < MaxProposals
        /\ Apply(create_proposal(St, proposer, in[1], description, in[2]))

VoteOnProposal ==
    \E id \in ProposalIds, voter \in Addresses, vote \in BOOLEAN :
        Apply(vote_on_proposal(St, id, voter, vote))

FinaliseProposal == \E id \in ProposalIds : Apply(finalise_proposal(St, id))

RetryExecution == \E id \in ProposalIds : Apply(retry_execution(St, id))

CancelProposal ==
    \E admin \in Addresses, id \in ProposalIds : Apply(cancel_proposal(St, admin, id))

\* the host's clock: monotonic, it advances between calls only.  The calls
\* compare `now` with voting_ends and nothing else, so the clock is advanced
\* only while some proposal's window is still open: later instants are seen by
\* every call exactly as the first instant at which the last window has closed
AdvanceTime ==
    \E dt \in TimeSteps :
        /\ \E id \in DOMAIN proposals : now < proposals[id].voting_ends
        /\ now' = now + dt
        /\ UNCHANGED <<stake, total_staked, proposal_counter, proposals, voted,
                       gov_admin, oracles, params, paused, credited, burned, tallied,
                       created, eval>>

Next ==
    \/ Initialize
    \/ DepositStake
    \/ WithdrawStake
    \/ CreateProposal
    \/ VoteOnProposal
    \/ FinaliseProposal
    \/ RetryExecution
    \/ CancelProposal
    \/ AdvanceTime

Spec == Init /\ [][Next]_vars

\* deposit_stake / withdraw_stake alone, on a ledger with no proposal
DepositStakeOnly ==
    \E staker \in Addresses, amount \in Amounts :
        /\ total_staked + amount <= MaxLedgerTotal
        /\ Apply(deposit_stake(St, staker, amount))

NextStake == DepositStakeOnly \/ WithdrawStake

SpecStake == Init /\ [][NextStake]_vars

\* proposal creation in depth: balances around the deposit (below it, equal
\* to it, above it), several proposals per behaviour, created at different
\* times and after earlier ones were cancelled, executed or have failed
FineAmounts == {1, PROPOSAL_DEPOSIT + 1}
CreatedIds == 1 .. MaxCreated
\* all four kinds of proposal
CreateInputsAll == CreateInputs \cup {<<"RemoveOracle", <<>>>>}

DepositFine ==
    \E staker \in Addresses, amount \in FineAmounts :
        /\ total_staked + amount <= MaxCreateTotal
        /\ Apply(deposit_stake(St, staker, amount))

CreateNext ==
    \E proposer \in Proposers, in \in CreateInputsAll, description \in Descriptions :
        /\ proposal_counter < MaxCreated
        /\ Apply(create_proposal(St, proposer, in[1], description, in[2]))

\* ballots in favour only: they are the ones that lead to an execution
VoteAny ==
    \E id \in CreatedIds, voter \in Addresses, vote \in {TRUE} :
        Apply(vote_on_proposal(St, id, voter, vote))

FinaliseAny == \E id \in CreatedIds : Apply(finalise_proposal(St, id))

CancelAny ==
    \E admin \in Addresses, id \in CreatedIds : Apply(cancel_proposal(St, admin, id))

NextCreate ==
    \/ Initialize
    \/ DepositFine
    \/ CreateNext
    \/ VoteAny
    \/ FinaliseAny
    \/ CancelAny
    \/ AdvanceTime

SpecCreate == Init /\ [][NextCreate]_vars

\* uneven stakes: a small holder next to one holding ten times as much, so
\* that cast votes can stay below the quorum of 10% of TotalStaked, and
\* TotalStaked can change between a vote and the end of the voting window
UnevenAmounts == {PROPOSAL_DEPOSIT + 1, 10}

DepositUneven ==
    \E staker \in Addresses, amount \in UnevenAmounts :
        /\ total_staked + amount <= MaxUnevenTotal
        /\ Apply(deposit_stake(St, staker, amount))

WithdrawUneven ==
    \E staker \in Addresses, amount \in UnevenAmounts :
        Apply(withdraw_stake(St, staker, amount))

\* one proposal per behaviour
CreateFirst ==
    \E proposer \in Proposers, in \in CreateInputs, description \in Descriptions :
        /\ proposal_counter = 0
        /\ Apply(create_proposal(St, proposer, in[1], description, in[2]))

NextUneven ==
    \/ DepositUneven
    \/ WithdrawUneven
    \/ CreateFirst
    \/ VoteOnProposal
    \/ FinaliseProposal
    \/ RetryExecution
    \/ AdvanceTime

SpecUneven == Init /\ [][NextUneven]_vars

\* oracle membership: the list under StorageKey::Oracles is written by the
\* oracle contract outside governance; a behaviour starts with any list of
\* distinct oracles, and governance proposes to add or to remove one
OracleAddresses == 1 .. MaxOracles

OracleLists ==
    UNION { {l \in [1 .. n -> OracleAddresses] :
                \A i \in 1 .. n, j \in 1 .. n : i # j => l[i] # l[j]} : n \in 0 .. MaxOracles }

\* a 32-byte payload whose first byte names an oracle
OraclePayload(o) == <<o>> \o Zeros(31)

OracleInputs ==
    { <<t, pl>> : t \in {"AddOracle", "RemoveOracle"},
                  pl \in {<<>>} \cup {OraclePayload(o) : o \in OracleAddresses} }

InitOracles ==
    /\ stake = InitSt.stake
    /\ total_staked = InitSt.total_staked
    /\ proposal_counter = InitSt.proposal_counter
    /\ proposals = InitSt.proposals
    /\ voted = InitSt.voted
    /\ gov_admin = InitSt.gov_admin
    /\ oracles \in OracleLists
    /\ params = InitSt.params
    /\ paused = InitSt.paused
    /\ now = InitSt.now
    /\ credited = InitSt.credited
    /\ burned = InitSt.burned
    /\ tallied = InitSt.tallied
    /\ created = InitSt.created
    /\ eval = NoEval

\* one proposal per behaviour
CreateOracleProposal ==
    \E proposer \in Proposers, in \in OracleInputs, description \in Descriptions :
        /\ proposal_counter = 0
        /\ Apply(create_proposal(St, proposer, in[1], description, in[2]))

NextOracles ==
    \/ DepositStake
    \/ CreateOracleProposal
    \/ VoteOnProposal
    \/ FinaliseProposal
    \/ RetryExecution
    \/ AdvanceTime

SpecOracles == InitOracles /\ [][NextOracles]_vars

\* parameter updates: UpdateParameter proposals whose payloads cover the
\* three parameter keys and unknown keys, values inside and outside the range
\* of the stored type, and payloads shorter and longer than 24 bytes
\* an 8-byte little-endian key: 0 .. 3, and 256 (low byte zero)
ParamKeys == {U64Le(k) : k \in 0 .. 3} \cup {<<0, 1>> \o Zeros(6)}

\* a 16-byte little-endian two's complement value: 9, 2^32, 2^64 and -1
ParamValues ==
    { I128Le(9),
      Zeros(4) \o <<1>> \o Zeros(11),
      Zeros(8) \o <<1>> \o Zeros(7),
      [i \in 1 .. 16 |-> 255] }

ParamInputs ==
    { <<"UpdateParameter", k \o v \o rest>> :
          k \in ParamKeys, v \in ParamValues, rest \in {<<>>, <<7>>} }
    \cup { <<"UpdateParameter", <<>>>>,
           <<"UpdateParameter", SubSeq(ParamPayload(0, 9), 1, 23)>> }

\* one proposal per behaviour
CreateParamProposal ==
    \E proposer \in Proposers, in \in ParamInputs, description \in Descriptions :
        /\ proposal_counter = 0
        /\ Apply(create_proposal(St, proposer, in[1], description, in[2]))

NextParams ==
    \/ DepositStake
    \/ CreateParamProposal
    \/ VoteOnProposal
    \/ FinaliseProposal
    \/ RetryExecution
    \/ AdvanceTime

SpecParams == Init /\ [][NextParams]_vars

\* is_quorum_reached / is_approved alone: the arguments are drawn at the
\* start, each function is applied once and what it returns is recorded
ProposalTypes == {"AddOracle", "RemoveOracle", "UpdateParameter", "EmergencyPause"}
\* tallies and totals: a dense range from 0, and the round figures of the
\* tests (votes 6000/4000, 8000/2000, 3300/1700; totals 10000, 100000)
TallyValues == 0 .. MaxTally \cup {1000, 1700, 2000, 3300, 4000, 6000, 8000}
TotalValues == 0 .. MaxEvalTotal \cup {10000, 50000, 100000}

InitEval ==
    /\ stake = InitSt.stake
    /\ total_staked = InitSt.total_staked
    /\ proposal_counter = InitSt.proposal_counter
    /\ proposals = InitSt.proposals
    /\ voted = InitSt.voted
    /\ gov_admin = InitSt.gov_admin
    /\ oracles = InitSt.oracles
    /\ params = InitSt.params
    /\ paused = InitSt.paused
    /\ now = InitSt.now
    /\ credited = InitSt.credited
    /\ burned = InitSt.burned
    /\ tallied = InitSt.tallied
    /\ created = InitSt.created
    /\ \E t \in ProposalTypes, vf \in TallyValues, va \in TallyValues, total \in TotalValues :
          eval = EvalOf(t, vf, va, total)

EvalQuorum ==
    /\ eval.quorum = {}
    /\ eval' = [eval EXCEPT !.quorum = {is_quorum_reached(eval.proposal, eval.total)}]
    /\ UNCHANGED <<stake, total_staked, proposal_counter, proposals, voted,
                   gov_admin, oracles, params, paused, now, credited, burned, tallied,
                   created>>

EvalApproved ==
    /\ eval.approved = {}
    /\ eval' = [eval EXCEPT !.approved = {is_approved(eval.proposal)}]
    /\ UNCHANGED <<stake, total_staked, proposal_counter, proposals, voted,
                   gov_admin, oracles, params, paused, now, credited, burned, tallied,
                   created>>

NextEval == EvalQuorum \/ EvalApproved

SpecEval == InitEval /\ [][NextEval]_vars

\* ------------------------------------------------------------------------
\* Every call a state can receive, and its outcome
\* ------------------------------------------------------------------------
NoInput == <<"", <<>>>>

Call(op, addr, id, amount, vote, in) ==
    [op |-> op, addr |-> addr, id |-> id, amount |-> amount, vote |-> vote, in |-> in]

Calls ==
    {Call("deposit_stake", a, 0, m, FALSE, NoInput) : a \in Addresses, m \in Amounts}
    \cup {Call("withdraw_stake", a, 0, m, FALSE, NoInput) : a \in Addresses, m \in Amounts}
    \cup {Call("create_proposal", a, 0, 0, FALSE, in) : a \in Proposers, in \in CreateInputs}
    \cup {Call("vote_on_proposal", a, id, 0, v, NoInput) :
              a \in Addresses, id \in ProposalIds, v \in BOOLEAN}
    \cup {Call("finalise_proposal", "a", id, 0, FALSE, NoInput) : id \in ProposalIds}
    \cup {Call("retry_execution", "a", id, 0, FALSE, NoInput) : id \in ProposalIds}
    \cup {Call("cancel_proposal", a, id, 0, FALSE, NoInput) : a \in Addresses, id \in ProposalIds}

Do(s, c) ==
    CASE c.op = "deposit_stake" -> deposit_stake(s, c.addr, c.amount)
      [] c.op = "withdraw_stake" -> withdraw_stake(s, c.addr, c.amount)
      [] c.op = "create_proposal" -> create_proposal(s, c.addr, c.in[1], "d", c.in[2])
      [] c.op = "vote_on_proposal" -> vote_on_proposal(s, c.id, c.addr, c.vote)
      [] c.op = "finalise_proposal" -> finalise_proposal(s, c.id)
      [] c.op = "retry_execution" -> retry_execution(s, c.id)
      [] c.op = "cancel_proposal" -> cancel_proposal(s, c.addr, c.id)

RECURSIVE SumOver(_, _)
SumOver(S, f) ==
    IF S = {}
    THEN 0
    ELSE LET x == CHOOSE y \in S : TRUE
         IN  f[x] + SumOver(S \ {x}, f)

\* the sum of all accounts' stake balances
SumStake(s) == SumOver(Addresses, s.stake)

\* the deposits of the proposals whose status is in `statuses`
DepositsIn(s, statuses) ==
    SumOver({id \in DOMAIN s.proposals : s.proposals[id].status \in statuses},
            [id \in DOMAIN s.proposals |-> s.proposals[id].deposit])

Terminal == {"Executed", "Failed", "Cancelled"}

\* section 4.3 of the specification, on bare tallies
QuorumMet(votes_for, votes_against, total) ==
    total > 0 /\ (votes_for + votes_against) * 10000 >= 1000 * total

ApprovalMet(votes_for, votes_against, kind) ==
    /\ votes_for + votes_against > 0
    /\ votes_for * 10000 >=
          (IF kind = "EmergencyPause" THEN 8000 ELSE 6600) * (votes_for + votes_against)

SameTallies(p, q) == p.votes_for = q.votes_for /\ p.votes_against = q.votes_against

\* ------------------------------------------------------------------------
\* Claims
\* ------------------------------------------------------------------------

\* C1: every (proposal_id, voter) pair has added weight to a tally at most
\* once, and a vote_on_proposal call by a voter whose ballot marker is set
\* fails without changing votes_for or votes_against.
C1_OneBallotPerVoter ==
    /\ \A k \in DOMAIN tallied : tallied[k] <= 1
    /\ \A id \in DOMAIN proposals, voter \in Addresses, vote \in BOOLEAN :
          <<id, voter>> \in voted =>
              LET r == vote_on_proposal(St, id, voter, vote)
              IN  /\ ~r.ret.ok
                  /\ SameTallies(r.st.proposals[id], proposals[id])
                  /\ r.st.tallied = tallied

\* a voter with stake has voted once on a proposal that is still open
C1_Witness ==
    \E id \in DOMAIN proposals, voter \in Addresses :
        /\ <<id, voter>> \in voted
        /\ Count(tallied, <<id, voter>>) = 1
        /\ proposals[id].status = "Active"
        /\ now < proposals[id].voting_ends
        /\ stake[voter] > 0

\* C2: a proposal in Executed or Cancelled has had its deposit credited back
\* exactly once and never burned, a proposal in Failed has had it burned once
\* and never credited, and no call credits or burns the deposit of a proposal
\* in a terminal status again.
C2_DepositAccountedOnce ==
    /\ \A id \in DOMAIN proposals :
          /\ proposals[id].status \in {"Executed", "Cancelled"} =>
                Count(credited, id) = 1 /\ Count(burned, id) = 0
          /\ proposals[id].status = "Failed" =>
                Count(credited, id) = 0 /\ Count(burned, id) = 1
    /\ \A c \in Calls, id \in DOMAIN proposals :
          proposals[id].status \in Terminal =>
              LET r == Do(St, c)
              IN  /\ Count(r.st.credited, id) = Count(credited, id)
                  /\ Count(r.st.burned, id) = Count(burned, id)

\* one proposal was executed and its deposit went back to the proposer
C2_Witness ==
    \E id \in DOMAIN proposals :
        /\ proposals[id].status = "Executed"
        /\ Count(credited, id) = 1
        /\ stake[proposals[id].proposer] >= proposals[id].deposit

AllowedChange ==
    { <<"Active", "Executed">>, <<"Active", "Failed">>,
      <<"Active", "ExecutionFailed">>, <<"Active", "Cancelled">>,
      <<"ExecutionFailed", "Executed">> }

\* C3: every step keeps each proposal's status or changes it along
\* Active->Executed, Active->Failed, Active->ExecutionFailed,
\* Active->Cancelled or ExecutionFailed->Executed; a status of Executed,
\* Failed or Cancelled never changes.
C3_StatusTransitions ==
    [][\A id \in DOMAIN proposals :
          /\ id \in DOMAIN proposals'
          /\ \/ proposals'[id].status = proposals[id].status
             \/ <<proposals[id].status, proposals'[id].status>> \in AllowedChange
          /\ proposals[id].status \in Terminal =>
                proposals'[id].status = proposals[id].status]_vars

\* a proposal has failed to execute, and can be retried
C3_Witness ==
    \E id \in DOMAIN proposals :
        /\ proposals[id].status = "ExecutionFailed"
        /\ retry_execution(St, id).ret.ok

\* a vote on an Active proposal whose voting window has closed
LateVote(c) ==
    /\ c.op = "vote_on_proposal"
    /\ c.id \in DOMAIN proposals
    /\ proposals[c.id].status = "Active"
    /\ now >= proposals[c.id].voting_ends

\* C4 as claimed: every public call that returns an error leaves the whole
\* state unchanged.
C4_ErrorLeavesStateUnchanged ==
    \A c \in Calls :
        LET r == Do(St, c)
        IN  ~r.ret.ok => r.st = St

\* C4 as amended: a public call that returns an error leaves the whole state
\* unchanged, except a vote on an Active proposal made when now >=
\* voting_ends, which sets that proposal's status to Failed (burning its
\* deposit) and changes nothing else.
C4_ErrorChangesOnlyExpiredStatus ==
    \A c \in Calls :
        LET r == Do(St, c)
        IN  ~r.ret.ok =>
                IF LateVote(c)
                THEN r.st = [St EXCEPT !.proposals[c.id].status = "Failed",
                                       !.burned = Bump(burned, c.id)]
                ELSE r.st = St

\* an expired Active proposal with a tally, where a late vote, a duplicate
\* vote's caller and a failing withdrawal all meet
C4_Witness ==
    \E c \in Calls :
        /\ LateVote(c)
        /\ proposals[c.id].votes_for + proposals[c.id].votes_against > 0
        /\ ~Do(St, c).ret.ok
        /\ \E d \in Calls : d.op = "withdraw_stake" /\ ~Do(St, d).ret.ok

\* C5: a vote on an Active proposal made when now >= voting_ends fails,
\* records no ballot marker, adds nothing to the tallies and leaves the
\* proposal Failed, whoever the caller is; every further late vote on it fails
\* and changes nothing.
C5_LateVoteFails ==
    \A id \in DOMAIN proposals, voter \in Addresses, vote \in BOOLEAN :
        (proposals[id].status = "Active" /\ now >= proposals[id].voting_ends) =>
            LET r == vote_on_proposal(St, id, voter, vote)
            IN  /\ ~r.ret.ok
                /\ r.st.voted = voted
                /\ SameTallies(r.st.proposals[id], proposals[id])
                /\ r.st.proposals[id].status = "Failed"
                /\ \A voter2 \in Addresses, vote2 \in BOOLEAN :
                      LET r2 == vote_on_proposal(r.st, id, voter2, vote2)
                      IN  ~r2.ret.ok /\ r2.st = r.st

\* an Active proposal exactly at voting_ends, with a caller who already voted
\* and a caller without stake
C5_Witness ==
    \E id \in DOMAIN proposals :
        /\ proposals[id].status = "Active"
        /\ now = proposals[id].voting_ends
        /\ \E voter \in Addresses : <<id, voter>> \in voted
        /\ \E voter \in Addresses : stake[voter] = 0

C7_TotalEqualsSumOfBalances == total_staked = SumStake(St)

\* C7 as amended: TotalStaked is at least the sum of all accounts' stake
\* balances, and equals it exactly when every proposal created so far is
\* Executed or Cancelled (create_proposal takes the deposit out of the
\* proposer's balance and not out of TotalStaked).
C7_TotalCoversBalances ==
    /\ total_staked >= SumStake(St)
    /\ total_staked = SumStake(St) <=>
          \A id \in DOMAIN proposals : proposals[id].status \in {"Executed", "Cancelled"}

\* a proposal is open and its locked deposit is the whole difference
C7_Witness ==
    \E id \in DOMAIN proposals :
        /\ proposals[id].status = "Active"
        /\ total_staked = SumStake(St) + PROPOSAL_DEPOSIT

StakeCalls == {c \in Calls : c.op \in {"deposit_stake", "withdraw_stake"}}

\* C8: in behaviours of deposit_stake and withdraw_stake alone, TotalStaked
\* is the sum of all accounts' stake balances, before and after every such
\* call, successful or failing.
C8_LedgerTotalIsSum ==
    /\ total_staked = stake["a"] + stake["b"]
    /\ \A c \in StakeCalls :
          LET r == Do(St, c)
          IN  r.st.total_staked = SumStake(r.st)

\* both accounts hold stake, one more than the other, and a withdrawal of a
\* whole balance is possible
C8_Witness ==
    /\ stake["a"] > stake["b"]
    /\ stake["b"] > 0
    /\ total_staked = stake["a"] + stake["b"]
    /\ withdraw_stake(St, "a", 2 * PROPOSAL_DEPOSIT).ret.ok
    /\ ~withdraw_stake(St, "b", 2 * PROPOSAL_DEPOSIT).ret.ok

\* C9: TotalStaked = sum of balances + deposits of the Active and
\* ExecutionFailed proposals + deposits of the Failed proposals, and no call
\* other than deposit_stake and withdraw_stake changes TotalStaked.
C9_DepositConservation ==
    /\ total_staked = SumStake(St) + DepositsIn(St, {"Active", "ExecutionFailed"})
                        + DepositsIn(St, {"Failed"})
    /\ \A c \in Calls \ StakeCalls : Do(St, c).st.total_staked = total_staked

\* a deposit was burned: the proposal is Failed and the total still counts it
C9_Witness ==
    \E id \in DOMAIN proposals :
        /\ proposals[id].status = "Failed"
        /\ Count(burned, id) = 1
        /\ total_staked = SumStake(St) + proposals[id].deposit

\* C10: every account's stake balance and TotalStaked are >= 0.
C10_NonNegative ==
    /\ \A a \in Addresses : stake[a] >= 0
    /\ total_staked >= 0

\* a proposal deposit took the proposer's balance to exactly zero, and the
\* other account's whole balance can be withdrawn
C10_Witness ==
    \E id \in DOMAIN proposals, a \in Addresses :
        /\ proposals[id].status = "Active"
        /\ stake[proposals[id].proposer] = 0
        /\ stake[a] > 0
        /\ withdraw_stake(St, a, stake[a]).st.stake[a] = 0

\* C11: is_quorum_reached returns true exactly when total_staked > 0 and
\* (votes_for + votes_against) * 10000 >= 1000 * total_staked, for the
\* arguments drawn and the value it returned on them; 6000 for / 4000 against
\* of 10000 staked meets quorum, and so do cast votes of exactly 10% of the
\* total.
C11_QuorumFormula ==
    /\ \A q \in eval.quorum :
          q <=> ( /\ eval.total > 0
                  /\ (eval.proposal.votes_for + eval.proposal.votes_against) * 10000
                        >= 1000 * eval.total )
    /\ is_quorum_reached(EvalOf("AddOracle", 6000, 4000, 10000).proposal, 10000)
    /\ is_quorum_reached(EvalOf("AddOracle", 1000, 0, 10000).proposal, 10000)
    /\ ~is_quorum_reached(EvalOf("AddOracle", 6000, 4000, 0).proposal, 0)

\* quorum was evaluated, and met, on cast votes of exactly 10% of the total
C11_Witness ==
    /\ eval.quorum = {TRUE}
    /\ eval.total > 0
    /\ (eval.proposal.votes_for + eval.proposal.votes_against) * 10 = eval.total

\* C12: is_approved returns true exactly when votes_for + votes_against > 0
\* and votes_for * 10000 >= T * (votes_for + votes_against), T = 8000 for
\* EmergencyPause and 6600 for every other kind; 6000 for / 4000 against is
\* not approved for a non-emergency proposal and 8000 for / 2000 against is
\* approved.
C12_ApprovalFormula ==
    /\ \A a \in eval.approved :
          LET votes_for == eval.proposal.votes_for
              votes_against == eval.proposal.votes_against
              T == IF eval.proposal.proposal_type = "EmergencyPause" THEN 8000 ELSE 6600
          IN  a <=> ( /\ votes_for + votes_against > 0
                      /\ votes_for * 10000 >= T * (votes_for + votes_against) )
    /\ \A t \in ProposalTypes \ {"EmergencyPause"} :
          ~is_approved(EvalOf(t, 6000, 4000, 10000).proposal)
    /\ \A t \in ProposalTypes : is_approved(EvalOf(t, 8000, 2000, 10000).proposal)

\* an emergency proposal was evaluated and rejected on tallies that approve
\* every other kind
C12_Witness ==
    /\ eval.approved = {FALSE}
    /\ eval.proposal.proposal_type = "EmergencyPause"
    /\ is_approved([eval.proposal EXCEPT !.proposal_type = "AddOracle"])

\* C13: a successful create_proposal decreases the proposer's stake balance
\* by exactly PROPOSAL_DEPOSIT, leaves TotalStaked, every other account's
\* balance and every existing proposal unchanged, and stores under a new id a
\* proposal with status Active, votes_for = votes_against = 0 and
\* deposit = PROPOSAL_DEPOSIT.
C13_CreateLocksDeposit ==
    \A proposer \in Addresses, in \in CreateInputsAll :
        LET r == create_proposal(St, proposer, in[1], "d", in[2])
        IN  r.ret.ok =>
                LET id == r.ret.val
                IN  /\ r.st.stake[proposer] = stake[proposer] - PROPOSAL_DEPOSIT
                    /\ \A a \in Addresses \ {proposer} : r.st.stake[a] = stake[a]
                    /\ r.st.total_staked = total_staked
                    /\ id \notin DOMAIN proposals
                    /\ DOMAIN r.st.proposals = DOMAIN proposals \cup {id}
                    /\ \A other \in DOMAIN proposals : r.st.proposals[other] = proposals[other]
                    /\ r.st.proposals[id].status = "Active"
                    /\ r.st.proposals[id].votes_for = 0
                    /\ r.st.proposals[id].votes_against = 0
                    /\ r.st.proposals[id].deposit = PROPOSAL_DEPOSIT
                    /\ r.st.proposals[id].proposer = proposer
                    /\ r.st.proposals[id].proposal_type = in[1]

\* a proposer who held the deposit and one unit more has just created a
\* proposal, while another account holds stake and an earlier proposal exists
C13_Witness ==
    /\ Len(created) >= 2
    /\ LET id == created[Len(created)].id
       IN  /\ created[Len(created)].at = now
           /\ proposals[id].status = "Active"
           /\ proposals[id].votes_for = 0 /\ proposals[id].votes_against = 0
           /\ stake[proposals[id].proposer] = 1
           /\ \E a \in Addresses \ {proposals[id].proposer} : stake[a] > 0

\* C14: create_proposal by a proposer whose stake balance is below
\* PROPOSAL_DEPOSIT returns InsufficientOracles and changes nothing (no
\* proposal, no id consumed, no balance); with a balance of PROPOSAL_DEPOSIT or
\* more it succeeds.
C14_InsufficientStakeRejected ==
    \A proposer \in Addresses, in \in CreateInputsAll :
        LET r == create_proposal(St, proposer, in[1], "d", in[2])
        IN  /\ stake[proposer] < PROPOSAL_DEPOSIT =>
                  /\ r.ret = Err("InsufficientOracles")
                  /\ r.st = St
            /\ stake[proposer] >= PROPOSAL_DEPOSIT => r.ret.ok

\* one account holds a positive balance below the deposit and is refused,
\* another holds exactly the deposit and is accepted
C14_Witness ==
    \E a \in Addresses, b \in Addresses :
        /\ stake[a] > 0 /\ stake[a] < PROPOSAL_DEPOSIT
        /\ ~create_proposal(St, a, "AddOracle", "d", <<>>).ret.ok
        /\ stake[b] = PROPOSAL_DEPOSIT
        /\ create_proposal(St, b, "AddOracle", "d", <<>>).ret.ok

\* C15: the k-th successful create_proposal returned k, proposal_count is the
\* number of proposals created so far, a proposal record exists for exactly
\* the ids 1 .. proposal_count, and the next create_proposal returns
\* proposal_count + 1, an id never used, whatever the status of the earlier
\* proposals.
C15_SequentialIds ==
    /\ proposal_count(St) = Len(created)
    /\ \A k \in 1 .. Len(created) : created[k].id = k
    /\ DOMAIN proposals = 1 .. proposal_count(St)
    /\ \A id \in DOMAIN proposals : proposals[id].id = id /\ get_proposal(St, id).ok
    /\ ~get_proposal(St, proposal_count(St) + 1).ok
    /\ \A proposer \in Addresses, in \in CreateInputsAll :
          LET r == create_proposal(St, proposer, in[1], "d", in[2])
          IN  r.ret.ok =>
                  /\ r.ret.val = proposal_count(St) + 1
                  /\ proposal_count(r.st) = proposal_count(St) + 1

\* a second proposal was created after the first one was executed
C15_Witness ==
    /\ Len(created) = 2
    /\ proposal_count(St) = 2
    /\ proposals[1].status = "Executed"
    /\ proposals[2].status = "Active"

\* C16: every proposal's voting_ends is the timestamp of its creation plus
\* 86400 when its kind is EmergencyPause and plus 604800 when it is AddOracle,
\* RemoveOracle or UpdateParameter, at creation and ever after.
C16_VotingWindow ==
    /\ \A k \in 1 .. Len(created) :
          LET p == proposals[created[k].id]
          IN  p.voting_ends =
                  created[k].at + (IF p.proposal_type = "EmergencyPause" THEN 86400 ELSE 604800)
    /\ \A proposer \in Addresses, in \in CreateInputsAll :
          LET r == create_proposal(St, proposer, in[1], "d", in[2])
          IN  r.ret.ok =>
                  r.st.proposals[r.ret.val].voting_ends =
                      now + (IF in[1] = "EmergencyPause" THEN 86400 ELSE 604800)

\* an emergency proposal created after the start of the ledger's clock has
\* left Active, and the clock has passed its voting_ends
C16_Witness ==
    \E k \in 1 .. Len(created) :
        LET p == proposals[created[k].id]
        IN  /\ created[k].at > 0
            /\ p.proposal_type = "EmergencyPause"
            /\ p.status # "Active"
            /\ now > p.voting_ends

C18_CancelNeedsAdmin ==
    \A caller \in Addresses, id \in 0 .. proposal_count(St) + 1 :
        caller # gov_admin =>
            LET r == cancel_proposal(St, caller, id)
            IN  /\ r.ret = Err("Unauthorized")
                /\ r.st = St

\* an admin is configured and could cancel the Active proposal, and the
\* proposer, who is not the admin, is refused
C18_Witness ==
    \E id \in DOMAIN proposals :
        /\ gov_admin \in Addresses
        /\ proposals[id].status = "Active"
        /\ proposals[id].proposer # gov_admin
        /\ cancel_proposal(St, gov_admin, id).ret.ok
        /\ ~cancel_proposal(St, proposals[id].proposer, id).ret.ok

\* C19: cancel_proposal on a proposal whose status is Cancelled, Executed,
\* Failed or ExecutionFailed fails for every caller, the admin included, and
\* changes nothing: no deposit is returned and the status stays.
C19_CancelOnlyActive ==
    \A caller \in Addresses, id \in DOMAIN proposals :
        proposals[id].status # "Active" =>
            LET r == cancel_proposal(St, caller, id)
            IN  /\ ~r.ret.ok
                /\ caller = gov_admin => r.ret = Err("InvalidPrice")
                /\ r.st = St

\* a cancelled proposal, its deposit returned once, and the admin calling
\* cancel again
C19_Witness ==
    \E id \in DOMAIN proposals :
        /\ gov_admin \in Addresses
        /\ proposals[id].status = "Cancelled"
        /\ Count(credited, id) = 1
        /\ ~cancel_proposal(St, gov_admin, id).ret.ok

\* C20: finalise_proposal on an existing proposal that is not Active, or that
\* is Active while now < voting_ends, returns the proposal's current status
\* and changes nothing.
C20_FinaliseNoOp ==
    \A id \in DOMAIN proposals :
        (proposals[id].status # "Active" \/ now < proposals[id].voting_ends) =>
            LET r == finalise_proposal(St, id)
            IN  /\ r.ret = Ok(proposals[id].status)
                /\ r.st = St

\* an Active proposal that carries a vote, inside its voting window
C20_Witness ==
    \E id \in DOMAIN proposals :
        /\ proposals[id].status = "Active"
        /\ now < proposals[id].voting_ends
        /\ proposals[id].votes_for + proposals[id].votes_against > 0
        /\ finalise_proposal(St, id).ret = Ok("Active")

\* the result of the kind-specific handler of a proposal
HandlerResult(s, proposal) ==
    CASE proposal.proposal_type = "AddOracle" -> exec_add_oracle(s, proposal).res
      [] proposal.proposal_type = "RemoveOracle" -> exec_remove_oracle(s, proposal).res
      [] proposal.proposal_type = "UpdateParameter" -> exec_update_parameter(s, proposal).res
      [] proposal.proposal_type = "EmergencyPause" -> exec_emergency_pause(s, proposal).res

\* C21: finalise_proposal on an Active proposal when now >= voting_ends
\* evaluates quorum against the TotalStaked of that moment and approval
\* against the stored tallies: if both hold the status becomes Executed or
\* ExecutionFailed, otherwise it becomes Failed, the deposit is burned and no
\* balance changes; the returned status is the stored one.
C21_FinaliseEvaluates ==
    \A id \in DOMAIN proposals :
        (proposals[id].status = "Active" /\ now >= proposals[id].voting_ends) =>
            LET r == finalise_proposal(St, id)
                p == proposals[id]
                q == r.st.proposals[id]
                passes == /\ QuorumMet(p.votes_for, p.votes_against, total_staked)
                          /\ ApprovalMet(p.votes_for, p.votes_against, p.proposal_type)
            IN  /\ r.ret = Ok(q.status)
                /\ SameTallies(q, p)
                /\ r.st.total_staked = total_staked
                /\ passes => /\ q.status \in {"Executed", "ExecutionFailed"}
                             /\ r.st.burned = burned
                /\ ~passes => /\ q.status = "Failed"
                              /\ r.st.stake = stake
                              /\ r.st.credited = credited
                              /\ r.st.burned = Bump(burned, id)

\* exactly at voting_ends an Active proposal meets quorum and approval: its
\* votes were below the quorum when they were cast, and TotalStaked has
\* decreased since
C21_Witness ==
    \E id \in DOMAIN proposals :
        /\ proposals[id].status = "Active"
        /\ now = proposals[id].voting_ends
        /\ is_quorum_reached(proposals[id], total_staked)
        /\ is_approved(proposals[id])
        /\ finalise_proposal(St, id).st.proposals[id].status = "Executed"

\* C22: retry_execution fails and changes nothing unless the proposal exists
\* and is ExecutionFailed; on an ExecutionFailed proposal it succeeds for any
\* caller and re-runs the handler: the proposal becomes Executed with the
\* deposit added to the proposer's balance if the handler succeeds, and stays
\* ExecutionFailed with nothing changed if it fails.
C22_RetryOnlyExecutionFailed ==
    \A id \in 0 .. proposal_count(St) + 1 :
        LET r == retry_execution(St, id)
        IN  IF id \in DOMAIN proposals /\ proposals[id].status = "ExecutionFailed"
            THEN /\ r.ret.ok
                 /\ IF HandlerResult(St, proposals[id]).ok
                    THEN /\ r.st.proposals[id].status = "Executed"
                         /\ r.st.stake =
                               [stake EXCEPT ![proposals[id].proposer] = @ + proposals[id].deposit]
                         /\ r.st.credited = Bump(credited, id)
                    ELSE r.st = St
            ELSE ~r.ret.ok /\ r.st = St

\* a proposal whose execution failed: its deposit is locked, and a retry runs
\* and leaves it ExecutionFailed
C22_Witness ==
    \E id \in DOMAIN proposals :
        /\ proposals[id].status = "ExecutionFailed"
        /\ Count(credited, id) = 0
        /\ retry_execution(St, id).ret.ok
        /\ retry_execution(St, id).st.proposals[id].status = "ExecutionFailed"

\* C23: whenever a vote, a finalise or a retry runs the dispatcher on a
\* proposal: if the kind's handler succeeds the status becomes Executed and
\* the proposer's balance grows by exactly the proposal's deposit, no other
\* balance changing; if the handler fails the status becomes ExecutionFailed,
\* no balance changes and the proposal can be retried.
C23_DispatchOutcome ==
    \A c \in Calls, id \in DOMAIN proposals :
        LET r == Do(St, c)
            p == proposals[id]
            after == r.st.proposals[id].status
            dispatched ==
                \/ p.status = "Active" /\ after \in {"Executed", "ExecutionFailed"}
                \/ c.op = "retry_execution" /\ c.id = id /\ p.status = "ExecutionFailed"
        IN  dispatched =>
                IF HandlerResult(St, p).ok
                THEN /\ after = "Executed"
                     /\ r.st.stake = [stake EXCEPT ![p.proposer] = @ + p.deposit]
                     /\ r.st.total_staked = total_staked
                ELSE /\ after = "ExecutionFailed"
                     /\ r.st.stake = stake
                     /\ r.st.total_staked = total_staked
                     /\ retry_execution(r.st, id).ret.ok

\* the dispatcher is about to run from finalise_proposal, on a proposal
\* whose handler fails
C23_Witness ==
    \E id \in DOMAIN proposals :
        /\ proposals[id].status = "Active"
        /\ now >= proposals[id].voting_ends
        /\ ~HandlerResult(St, proposals[id]).ok
        /\ finalise_proposal(St, id).st.proposals[id].status = "ExecutionFailed"
        /\ finalise_proposal(St, id).st.stake = stake

\* C24: an accepted vote adds the voter's stake balance of that moment (for
\* the proposer, the balance without the locked deposit) to votes_for when
\* the vote is in favour and to votes_against otherwise, and to nothing else;
\* a voter whose balance is zero on an open proposal is rejected with
\* LowReputation, no ballot marker is set and nothing changes.
C24_VoteWeight ==
    \A id \in DOMAIN proposals, voter \in Addresses, vote \in BOOLEAN :
        LET r == vote_on_proposal(St, id, voter, vote)
            p == proposals[id]
            q == r.st.proposals[id]
        IN  /\ r.ret.ok =>
                  /\ stake[voter] > 0
                  /\ q.votes_for = p.votes_for + (IF vote THEN stake[voter] ELSE 0)
                  /\ q.votes_against = p.votes_against + (IF vote THEN 0 ELSE stake[voter])
                  /\ <<id, voter>> \in r.st.voted
            /\ ( /\ p.status = "Active"
                 /\ now < p.voting_ends
                 /\ <<id, voter>> \notin voted
                 /\ stake[voter] = 0 ) =>
                  /\ r.ret = Err("LowReputation")
                  /\ r.st = St

\* the proposer of an open proposal holds less than the locked deposit and
\* can vote with it, the other account holds ten units, and TotalStaked
\* counts the deposit too
C24_Witness ==
    \E id \in DOMAIN proposals, voter \in Addresses :
        /\ proposals[id].status = "Active"
        /\ now < proposals[id].voting_ends
        /\ proposals[id].proposer # voter
        /\ stake[proposals[id].proposer] = 1
        /\ stake[voter] = 10
        /\ total_staked = 11 + proposals[id].deposit
        /\ vote_on_proposal(St, id, proposals[id].proposer, TRUE).st.proposals[id].votes_for = 1
        /\ vote_on_proposal(St, id, voter, FALSE).st.proposals[id].votes_against = 10

\* C25 as claimed: a vote_on_proposal call from an address that has a ballot
\* recorded on the proposal fails with OracleAlreadyExists, whatever the
\* status of the proposal and the time.
C25_SecondVoteAlreadyVoted ==
    \A id \in DOMAIN proposals, voter \in Addresses, vote \in BOOLEAN :
        <<id, voter>> \in voted =>
            vote_on_proposal(St, id, voter, vote).ret = Err("OracleAlreadyExists")

\* C25 as amended: a vote_on_proposal call from an address that has a ballot
\* recorded on the proposal always fails and adds nothing to the tallies; the
\* error is OracleAlreadyExists when the proposal is Active and
\* now < voting_ends, and InvalidPrice when the proposal is not Active or the
\* window has closed.
C25_SecondVoteFails ==
    \A id \in DOMAIN proposals, voter \in Addresses, vote \in BOOLEAN :
        <<id, voter>> \in voted =>
            LET r == vote_on_proposal(St, id, voter, vote)
                open == proposals[id].status = "Active" /\ now < proposals[id].voting_ends
            IN  /\ r.ret = Err(IF open THEN "OracleAlreadyExists" ELSE "InvalidPrice")
                /\ SameTallies(r.st.proposals[id], proposals[id])
                /\ r.st.voted = voted

\* a voter's ballot executed the proposal, and the voter still holds stake
C25_Witness ==
    \E id \in DOMAIN proposals, voter \in Addresses :
        /\ <<id, voter>> \in voted
        /\ proposals[id].status = "Executed"
        /\ stake[voter] > 0
        /\ ~vote_on_proposal(St, id, voter, TRUE).ret.ok

\* C26: withdraw_stake succeeds exactly when 0 < amount <= the staker's
\* balance, and then decreases that balance and TotalStaked by amount and
\* changes nothing else; otherwise it returns InvalidPrice and changes
\* nothing.  The balance does not include a locked proposal deposit.
C26_WithdrawBounds ==
    \A staker \in Addresses, amount \in -1 .. total_staked + 1 :
        LET r == withdraw_stake(St, staker, amount)
        IN  IF 0 < amount /\ amount <= stake[staker]
            THEN /\ r.ret.ok
                 /\ r.st = [St EXCEPT !.stake[staker] = @ - amount,
                                      !.total_staked = @ - amount]
            ELSE /\ r.ret = Err("InvalidPrice")
                 /\ r.st = St

\* a proposer with a locked deposit can withdraw the whole balance and not
\* one unit more, although TotalStaked still counts the deposit
C26_Witness ==
    \E id \in DOMAIN proposals :
        LET proposer == proposals[id].proposer
        IN  /\ proposals[id].status = "Active"
            /\ stake[proposer] > 0
            /\ total_staked >= stake[proposer] + proposals[id].deposit
            /\ withdraw_stake(St, proposer, stake[proposer]).ret.ok
            /\ ~withdraw_stake(St, proposer, stake[proposer] + 1).ret.ok

\* C27: vote_on_proposal on a proposal whose status is Cancelled, Executed,
\* Failed or ExecutionFailed fails and changes nothing (no ballot marker, same
\* tallies, same status), at any time and for any voter.
C27_VoteOnlyActive ==
    \A id \in DOMAIN proposals, voter \in Addresses, vote \in BOOLEAN :
        proposals[id].status # "Active" =>
            LET r == vote_on_proposal(St, id, voter, vote)
            IN  /\ r.ret = Err("InvalidPrice")
                /\ r.st = St

\* a cancelled proposal whose window is open, and a holder of stake who has
\* not voted on it
C27_Witness ==
    \E id \in DOMAIN proposals, voter \in Addresses :
        /\ proposals[id].status = "Cancelled"
        /\ now < proposals[id].voting_ends
        /\ stake[voter] > 0
        /\ <<id, voter>> \notin voted
        /\ ~vote_on_proposal(St, id, voter, TRUE).ret.ok

\* C28: has_voted(proposal_id, voter) is true exactly when a vote of that
\* voter on that proposal was accepted; a call sets at most the marker of its
\* own (proposal_id, voter), and only when it is an accepted vote; no call
\* removes a marker.
C28_BallotMarker ==
    /\ \A id \in 0 .. proposal_count(St) + 1, voter \in Addresses :
          has_voted(St, id, voter) <=> Count(tallied, <<id, voter>>) >= 1
    /\ \A c \in Calls :
          LET r == Do(St, c)
          IN  /\ voted \subseteq r.st.voted
              /\ r.st.voted \ voted \subseteq
                    (IF c.op = "vote_on_proposal" /\ r.ret.ok THEN {<<c.id, c.addr>>} ELSE {})
              /\ (c.op = "vote_on_proposal" /\ r.ret.ok) => has_voted(r.st, c.id, c.addr)

\* both accounts have voted on the same proposal
C28_Witness ==
    \E id \in DOMAIN proposals :
        /\ has_voted(St, id, "a")
        /\ has_voted(St, id, "b")
        /\ ~has_voted(St, id + 1, "a")

\* C29: once an admin is stored, initialize fails for every argument and
\* changes nothing, no other call changes the stored admin, and
\* cancel_proposal checks its caller against that admin.
C29_InitializeOnce ==
    gov_admin # NoAdmin =>
        /\ \A admin \in Addresses :
              LET r == initialize(St, admin)
              IN  ~r.ret.ok /\ r.st = St
        /\ \A c \in Calls : Do(St, c).st.gov_admin = gov_admin
        /\ \A caller \in Addresses, id \in DOMAIN proposals :
              cancel_proposal(St, caller, id).ret = Err("Unauthorized") <=> caller # gov_admin

\* the admin is stored, a proposal has been cancelled by it, and another
\* address asks to become the admin
C29_Witness ==
    \E id \in DOMAIN proposals, other \in Addresses :
        /\ gov_admin \in Addresses
        /\ other # gov_admin
        /\ proposals[id].status = "Cancelled"
        /\ ~initialize(St, other).ret.ok
        /\ initialize(St, other).st.gov_admin = gov_admin

\* C30: whenever the dispatcher runs a RemoveOracle proposal while a removal
\* would leave fewer than MIN_ORACLES oracles, the execution fails: the
\* proposal is ExecutionFailed and the membership list is unchanged; and no
\* call takes a list of MIN_ORACLES or more oracles below MIN_ORACLES.
C30_MinOraclesKept ==
    /\ \A c \in Calls, id \in DOMAIN proposals :
          LET r == Do(St, c)
              p == proposals[id]
              after == r.st.proposals[id].status
              dispatched ==
                  \/ p.status = "Active" /\ after \in {"Executed", "ExecutionFailed"}
                  \/ c.op = "retry_execution" /\ c.id = id /\ p.status = "ExecutionFailed"
          IN  ( /\ dispatched
                /\ p.proposal_type = "RemoveOracle"
                /\ Len(oracles) - 1 < MIN_ORACLES ) =>
                    /\ after = "ExecutionFailed"
                    /\ r.st.oracles = oracles
    /\ \A c \in Calls :
          Len(oracles) >= MIN_ORACLES => Len(Do(St, c).st.oracles) >= MIN_ORACLES

\* with exactly MIN_ORACLES oracles, a proposal to remove one of them was
\* approved and its execution has failed
C30_Witness ==
    \E id \in DOMAIN proposals :
        /\ Len(oracles) = MIN_ORACLES
        /\ proposals[id].proposal_type = "RemoveOracle"
        /\ proposals[id].execution_payload # <<>>
        /\ Contains(oracles, Head(proposals[id].execution_payload))
        /\ proposals[id].status = "ExecutionFailed"
        /\ proposals[id].votes_for > 0

\* C31: whenever the dispatcher runs an AddOracle proposal whose payload is
\* not empty: if the address the payload names is not in the membership list,
\* the address is appended to the list, the proposal becomes Executed and the
\* deposit is added to the proposer's balance; if it is already a member the
\* proposal becomes ExecutionFailed and the list is unchanged.
C31_AddOracleExecutes ==
    \A c \in Calls, id \in DOMAIN proposals :
        LET r == Do(St, c)
            p == proposals[id]
            after == r.st.proposals[id].status
            dispatched ==
                \/ p.status = "Active" /\ after \in {"Executed", "ExecutionFailed"}
                \/ c.op = "retry_execution" /\ c.id = id /\ p.status = "ExecutionFailed"
        IN  ( /\ dispatched
              /\ p.proposal_type = "AddOracle"
              /\ p.execution_payload # <<>> ) =>
                  LET oracle == Head(p.execution_payload)
                  IN  IF Contains(oracles, oracle)
                      THEN /\ after = "ExecutionFailed"
                           /\ r.st.oracles = oracles
                      ELSE /\ after = "Executed"
                           /\ r.st.oracles = Append(oracles, oracle)
                           /\ r.st.stake = [stake EXCEPT ![p.proposer] = @ + p.deposit]

\* an approved AddOracle proposal whose payload names an address that is not
\* a member: its execution has failed, the list is as it was and the deposit
\* has not been returned
C31_Witness ==
    \E id \in DOMAIN proposals :
        /\ proposals[id].proposal_type = "AddOracle"
        /\ proposals[id].execution_payload # <<>>
        /\ ~Contains(oracles, Head(proposals[id].execution_payload))
        /\ proposals[id].status = "ExecutionFailed"
        /\ is_approved(proposals[id])
        /\ Count(credited, id) = 0

\* the stored little-endian bytes denote the number that the 16 bytes of the
\* decoded i128 denote: the stored unsigned bytes, extended with zeros
StoresValue(stored, value) ==
    /\ stored # Unset
    /\ value = stored \o Zeros(Len(value) - Len(stored))

\* C32: whenever the dispatcher runs an UpdateParameter proposal: if the
\* payload has at least 24 bytes and its key is 0, 1 or 2, the value decoded
\* from bytes 8..24 is what is stored afterwards under min_oracles, price_ttl
\* or max_deviation_bps respectively, no other parameter changes and the
\* proposal becomes Executed; with any other key or a shorter payload no
\* parameter is written, the proposal becomes ExecutionFailed, and a retry
\* leaves everything as it is.
C32_UpdateParameterWrites ==
    \A c \in Calls, id \in DOMAIN proposals :
        LET r == Do(St, c)
            p == proposals[id]
            after == r.st.proposals[id].status
            payload == p.execution_payload
            key == SubSeq(payload, 1, 8)
            value == SubSeq(payload, 9, 24)
            dispatched ==
                \/ p.status = "Active" /\ after \in {"Executed", "ExecutionFailed"}
                \/ c.op = "retry_execution" /\ c.id = id /\ p.status = "ExecutionFailed"
        IN  (dispatched /\ p.proposal_type = "UpdateParameter") =>
                IF Len(payload) >= 24 /\ key \in {U64Le(0), U64Le(1), U64Le(2)}
                THEN /\ after = "Executed"
                     /\ key = U64Le(0) =>
                           /\ StoresValue(r.st.params.p_min_or, value)
                           /\ r.st.params = [params EXCEPT !.p_min_or = r.st.params.p_min_or]
                     /\ key = U64Le(1) =>
                           /\ StoresValue(r.st.params.p_ttl, value)
                           /\ r.st.params = [params EXCEPT !.p_ttl = r.st.params.p_ttl]
                     /\ key = U64Le(2) =>
                           /\ StoresValue(r.st.params.p_dev, value)
                           /\ r.st.params = [params EXCEPT !.p_dev = r.st.params.p_dev]
                ELSE /\ after = "ExecutionFailed"
                     /\ r.st.params = params
                     /\ retry_execution(r.st, id).st = r.st

\* an executed proposal to set min_oracles to 2^32: the stored min_oracles is
\* 0
C32_Witness ==
    \E id \in DOMAIN proposals :
        /\ proposals[id].proposal_type = "UpdateParameter"
        /\ proposals[id].status = "Executed"
        /\ SubSeq(proposals[id].execution_payload, 1, 8) = U64Le(0)
        /\ SubSeq(proposals[id].execution_payload, 9, 24) = Zeros(4) \o <<1>> \o Zeros(11)
        /\ params.p_min_or = Zeros(4)

\* C33: no EmergencyPause proposal is ever ExecutionFailed, the paused flag is
\* true whenever an EmergencyPause proposal is Executed, and no call clears
\* the flag.
C33_EmergencyPauseSucceeds ==
    /\ \A id \in DOMAIN proposals :
          proposals[id].proposal_type = "EmergencyPause" =>
              /\ proposals[id].status # "ExecutionFailed"
              /\ proposals[id].status = "Executed" => paused = TRUE
    /\ \A c \in Calls : paused = TRUE => Do(St, c).st.paused = TRUE

\* an EmergencyPause proposal was approved and executed, the flag is set and
\* the deposit went back to the proposer
C33_Witness ==
    \E id \in DOMAIN proposals :
        /\ proposals[id].proposal_type = "EmergencyPause"
        /\ proposals[id].status = "Executed"
        /\ paused = TRUE
        /\ Count(credited, id) = 1

\* C34: a vote_on_proposal or finalise_proposal call made while the stored
\* tallies of a proposal satisfy quorum (against the TotalStaked of that
\* moment) and approval does not leave the proposal Failed and does not burn
\* its deposit.
C34_PassingNeverFailed ==
    \A c \in Calls, id \in DOMAIN proposals :
        LET r == Do(St, c)
            p == proposals[id]
        IN  ( /\ c.op \in {"vote_on_proposal", "finalise_proposal"}
              /\ p.status # "Failed"
              /\ QuorumMet(p.votes_for, p.votes_against, total_staked)
              /\ ApprovalMet(p.votes_for, p.votes_against, p.proposal_type) ) =>
                  /\ r.st.proposals[id].status # "Failed"
                  /\ Count(r.st.burned, id) = Count(burned, id)

\* an Active proposal whose window has closed meets quorum and approval (its
\* votes were below the quorum when cast, TotalStaked has decreased since):
\* finalise_proposal would execute it, a late vote marks it Failed and burns
\* the deposit
C34_Witness ==
    \E id \in DOMAIN proposals, voter \in Addresses :
        /\ proposals[id].status = "Active"
        /\ now >= proposals[id].voting_ends
        /\ is_quorum_reached(proposals[id], total_staked)
        /\ is_approved(proposals[id])
        /\ finalise_proposal(St, id).st.proposals[id].status = "Executed"
        /\ vote_on_proposal(St, id, voter, TRUE).st.proposals[id].status = "Failed"
        /\ Count(vote_on_proposal(St, id, voter, TRUE).st.burned, id) = 1

\* C35: every account's stake balance is at most TotalStaked, and every
\* successful withdraw_stake leaves TotalStaked at exactly its value before
\* the call minus the withdrawn amount: the floor at 0 is never what decides
\* the new total.
C35_FloorNeverTaken ==
    /\ \A a \in Addresses : stake[a] <= total_staked
    /\ \A staker \in Addresses, amount \in 1 .. total_staked + 1 :
          LET r == withdraw_stake(St, staker, amount)
          IN  r.ret.ok =>
                  /\ total_staked - amount >= 0
                  /\ r.st.total_staked = total_staked - amount

\* both accounts hold stake, a deposit has been burned, and an account
\* withdraws its whole balance
C35_Witness ==
    \E id \in DOMAIN proposals, staker \in Addresses :
        /\ proposals[id].status = "Failed"
        /\ \A a \in Addresses : stake[a] > 0
        /\ total_staked = SumStake(St) + proposals[id].deposit
        /\ withdraw_stake(St, staker, stake[staker]).ret.ok
        /\ withdraw_stake(St, staker, stake[staker]).st.total_staked =
              total_staked - stake[staker]

\* C36: every Failed proposal has voting_ends <= now; a call that turns a
\* proposal Failed is made when now >= voting_ends; a call that changes a
\* tally of a proposal is made when now < voting_ends, so no tally changes at
\* or after voting_ends.  The clock itself never decreases (AdvanceTime).
C36_TimeoutsByClock ==
    /\ \A id \in DOMAIN proposals :
          proposals[id].status = "Failed" => proposals[id].voting_ends <= now
    /\ \A c \in Calls, id \in DOMAIN proposals :
          LET r == Do(St, c)
              p == proposals[id]
              q == r.st.proposals[id]
          IN  /\ r.st.now = now
              /\ (p.status # "Failed" /\ q.status = "Failed") => now >= p.voting_ends
              /\ ~SameTallies(q, p) => now < p.voting_ends
              /\ now >= p.voting_ends => SameTallies(q, p)

\* a proposal with votes on both sides failed when its window closed, and
\* both voters still hold stake
C36_Witness ==
    \E id \in DOMAIN proposals :
        /\ proposals[id].status = "Failed"
        /\ now >= proposals[id].voting_ends
        /\ proposals[id].votes_for > 0
        /\ proposals[id].votes_against > 0
        /\ \A a \in Addresses : stake[a] > 0

\* C37: in every step, every stored proposal stays stored with the same id,
\* proposer, kind, payload, voting_ends and deposit; its votes_for and
\* votes_against do not decrease (a withdrawal by a voter included), and do
\* not change at all when its status before the step is not Active.
C37_ProposalFrame ==
    [][\A id \in DOMAIN proposals :
          /\ id \in DOMAIN proposals'
          /\ proposals'[id].id = proposals[id].id
          /\ proposals'[id].proposer = proposals[id].proposer
          /\ proposals'[id].proposal_type = proposals[id].proposal_type
          /\ proposals'[id].execution_payload = proposals[id].execution_payload
          /\ proposals'[id].voting_ends = proposals[id].voting_ends
          /\ proposals'[id].deposit = proposals[id].deposit
          /\ proposals'[id].votes_for >= proposals[id].votes_for
          /\ proposals'[id].votes_against >= proposals[id].votes_against
          /\ proposals[id].status # "Active" =>
                SameTallies(proposals'[id], proposals[id])]_vars

\* a voter's ten units are still in the tally of an open proposal after the
\* voter has withdrawn the whole balance, and the deposit is still recorded
C37_Witness ==
    \E id \in DOMAIN proposals, voter \in Addresses :
        /\ proposals[id].status = "Active"
        /\ <<id, voter>> \in voted
        /\ stake[voter] = 0
        /\ proposals[id].votes_against = 10
        /\ proposals[id].deposit = PROPOSAL_DEPOSIT
        /\ proposals[id].id = id

\* C38: while a proposal is ExecutionFailed its deposit has been neither
\* returned nor burned; vote_on_proposal and cancel_proposal fail on it and
\* change nothing, finalise_proposal returns its status and changes nothing,
\* a retry_execution whose handler fails changes nothing, and the only call
\* after which it is no longer ExecutionFailed is a retry_execution of it
\* whose handler succeeds, which leaves it Executed; at any time.
C38_ExecutionFailedStays ==
    \A id \in DOMAIN proposals :
        proposals[id].status = "ExecutionFailed" =>
            /\ Count(credited, id) = 0
            /\ Count(burned, id) = 0
            /\ \A c \in Calls :
                  LET r == Do(St, c)
                      retried == c.op = "retry_execution" /\ c.id = id
                      succeeds == HandlerResult(St, proposals[id]).ok
                  IN  /\ r.st.proposals[id].status # "ExecutionFailed" =>
                            /\ retried /\ succeeds
                            /\ r.st.proposals[id].status = "Executed"
                      /\ (retried /\ ~succeeds) => r.st = St
                      /\ (c.id = id /\ c.op \in {"vote_on_proposal", "cancel_proposal"}) =>
                            ~r.ret.ok /\ r.st = St
                      /\ (c.id = id /\ c.op = "finalise_proposal") =>
                            r.ret = Ok("ExecutionFailed") /\ r.st = St

\* the window of a proposal whose execution failed has closed, an admin is
\* stored and holds stake without having voted: its cancel and its vote are
\* refused, and a retry fails again
C38_Witness ==
    \E id \in DOMAIN proposals :
        /\ proposals[id].status = "ExecutionFailed"
        /\ now >= proposals[id].voting_ends
        /\ gov_admin \in Addresses
        /\ stake[gov_admin] > 0
        /\ <<id, gov_admin>> \notin voted
        /\ cancel_proposal(St, gov_admin, id).ret = Err("InvalidPrice")
        /\ vote_on_proposal(St, id, gov_admin, TRUE).ret = Err("InvalidPrice")
        /\ retry_execution(St, id).st = St

\* C39: for every proposal, votes_for + votes_against <= TotalStaked.
C39_TalliesWithinTotal ==
    \A id \in DOMAIN proposals :
        proposals[id].votes_for + proposals[id].votes_against <= total_staked

\* the same ten units were counted twice on an open proposal: one account
\* voted with them and withdrew them, the other deposited ten and voted
C39_Witness ==
    \E id \in DOMAIN proposals :
        /\ proposals[id].status = "Active"
        /\ \A a \in Addresses : <<id, a>> \in voted
        /\ proposals[id].votes_for + proposals[id].votes_against > total_staked
        /\ proposals[id].votes_for + proposals[id].votes_against > 2 * 10
        /\ total_staked <= 10 + PROPOSAL_DEPOSIT + 1

====
